---- MODULE Spec2Model ----
(***************************************************************************)
(* Call-conversation orchestration of the calling agent: the webhook       *)
(* routes (voice, gather, status), the hangup route, ConversationService,  *)
(* the Call store with its unique callSid index and the Lead document.     *)
(*                                                                         *)
(* Every handler is an async function: its code runs without interruption  *)
(* from one await of real I/O (database, OpenAI, Twilio) to the next, so   *)
(* one action is one such segment.  The effect of an I/O operation is      *)
(* applied in the step that resumes the handler after it.                  *)
(*                                                                         *)
(* Text is a sequence of one-character strings, so that toLowerCase,       *)
(* includes and replace are computed and not assumed.  A missing (null or  *)
(* undefined) text field is the empty text: the code tests these fields    *)
(* for truthiness only, and the empty string is falsy as well.             *)
(***************************************************************************)
EXTENDS Integers, Sequences, FiniteSets, Bags, TLC

\* ---------------------------------------------------------------- bounds
\* CallSids are 1..NumCalls.
NumCalls == 1
\* Number of HTTP requests (webhooks, hangups) received in one behaviour.
MaxHandlers == 3

CallSids == 1..NumCalls

\* ------------------------------------------------------------------ text
LowerChar(ch) ==
  CASE ch = "A" -> "a" [] ch = "B" -> "b" [] ch = "C" -> "c" [] ch = "D" -> "d"
    [] ch = "E" -> "e" [] ch = "F" -> "f" [] ch = "G" -> "g" [] ch = "H" -> "h"
    [] ch = "I" -> "i" [] ch = "J" -> "j" [] ch = "K" -> "k" [] ch = "L" -> "l"
    [] ch = "M" -> "m" [] ch = "N" -> "n" [] ch = "O" -> "o" [] ch = "P" -> "p"
    [] ch = "Q" -> "q" [] ch = "R" -> "r" [] ch = "S" -> "s" [] ch = "T" -> "t"
    [] ch = "U" -> "u" [] ch = "V" -> "v" [] ch = "W" -> "w" [] ch = "X" -> "x"
    [] ch = "Y" -> "y" [] ch = "Z" -> "z" [] OTHER -> ch

\* String.prototype.toLowerCase
toLowerCase(s) == [i \in 1..Len(s) |-> LowerChar(s[i])]

\* String.prototype.includes
includes(s, sub) ==
  \E i \in 0..(Len(s) - Len(sub)) : SubSeq(s, i + 1, i + Len(sub)) = sub

IsSpace(ch) == ch = " "

\* String.prototype.trim
RECURSIVE trim(_)
trim(s) ==
  IF s = <<>> THEN s
  ELSE IF IsSpace(Head(s)) THEN trim(Tail(s))
  ELSE IF IsSpace(s[Len(s)]) THEN trim(SubSeq(s, 1, Len(s) - 1))
  ELSE s

\* The text String.prototype.replace inserts for a replacement string: $$ is
\* a dollar sign, $& the matched text, $` the text before the match and $'
\* the text after it; the patterns here have no groups, so any other $ is
\* kept as it is.
RECURSIVE expandReplacement(_, _, _, _)
expandReplacement(rep, matched, before, after) ==
  IF rep = <<>> THEN <<>>
  ELSE IF Head(rep) = "$" /\ Len(rep) >= 2 /\ rep[2] \in {"$", "&", "`", "'"}
       THEN (CASE rep[2] = "$" -> <<"$">>
               [] rep[2] = "&" -> matched
               [] rep[2] = "`" -> before
               [] rep[2] = "'" -> after)
            \o expandReplacement(SubSeq(rep, 3, Len(rep)), matched, before, after)
       ELSE <<Head(rep)>> \o expandReplacement(Tail(rep), matched, before, after)

\* The replacement of the occurrences of pat in s from position i on.
RECURSIVE replaceFrom(_, _, _, _)
replaceFrom(s, i, pat, rep) ==
  IF i + Len(pat) - 1 > Len(s) THEN SubSeq(s, i, Len(s))
  ELSE IF SubSeq(s, i, i + Len(pat) - 1) = pat
       THEN expandReplacement(rep, pat, SubSeq(s, 1, i - 1),
                              SubSeq(s, i + Len(pat), Len(s)))
            \o replaceFrom(s, i + Len(pat), pat, rep)
       ELSE <<s[i]>> \o replaceFrom(s, i + 1, pat, rep)

\* String.prototype.replace with a global pattern without metacharacters
\* and a replacement string: every occurrence, left to right, not
\* overlapping.
replaceAll(s, pat, rep) == replaceFrom(s, 1, pat, rep)

\* A text field is truthy when it is present and not empty.
Truthy(s) == s # <<>>

\* ------------------------------------------------------- fixed utterances

\* 'Thank you for your time. Goodbye!'
DefaultClosing ==
  <<"T","h","a","n","k"," ","y","o","u"," ","f","o","r"," ","y","o","u","r"," ","t","i","m","e","."," ","G","o","o","d","b","y","e","!">>

\* 'Thank you for calling. Goodbye!'
UnknownCallGoodbye ==
  <<"T","h","a","n","k"," ","y","o","u"," ","f","o","r"," ","c","a","l","l","i","n","g","."," ","G","o","o","d","b","y","e","!">>

\* 'I apologize, there was an error. Goodbye!'
VoiceErrorGoodbye ==
  <<"I"," ","a","p","o","l","o","g","i","z","e",","," ","t","h","e","r","e"," ","w","a","s"," ","a","n"," ","e","r","r","o","r","."," ","G","o","o","d","b","y","e","!">>

\* 'I apologize, I didn't quite catch that. Could you please repeat?'
RepeatPrompt ==
  <<"I"," ","a","p","o","l","o","g","i","z","e",","," ","I"," ","d","i","d","n","'","t"," ","q","u","i","t","e"," ","c","a","t","c","h"," ","t","h","a","t","."," ","C","o","u","l","d"," ","y","o","u"," ","p","l","e","a","s","e"," ","r","e","p","e","a","t","?">>

\* 'I didn't hear anything. Could you please say something?'
NoSpeechPrompt ==
  <<"I"," ","d","i","d","n","'","t"," ","h","e","a","r"," ","a","n","y","t","h","i","n","g","."," ","C","o","u","l","d"," ","y","o","u"," ","p","l","e","a","s","e"," ","s","a","y"," ","s","o","m","e","t","h","i","n","g","?">>

\* 'Hello, this is an automated sales call. Am I speaking with '
DefaultOpeningPrefix ==
  <<"H","e","l","l","o",","," ","t","h","i","s"," ","i","s"," ","a","n"," ","a","u","t","o","m","a","t","e","d"," ","s","a","l","e","s"," ","c","a","l","l","."," ","A","m"," ","I"," ","s","p","e","a","k","i","n","g"," ","w","i","t","h"," ">>

\* openaiService.getFallbackResponse: the five fixed fallback utterances
fallbackResponses ==
  << <<"I"," ","u","n","d","e","r","s","t","a","n","d","."," ","C","a","n"," ","y","o","u"," ","t","e","l","l"," ","m","e"," ","m","o","r","e"," ","a","b","o","u","t"," ","t","h","a","t","?">>,
     <<"T","h","a","t","'","s"," ","i","n","t","e","r","e","s","t","i","n","g","."," ","W","h","a","t","'","s"," ","m","o","s","t"," ","i","m","p","o","r","t","a","n","t"," ","t","o"," ","y","o","u"," ","i","n"," ","t","h","i","s"," ","a","r","e","a","?">>,
     <<"I"," ","a","p","p","r","e","c","i","a","t","e"," ","y","o","u"," ","s","h","a","r","i","n","g"," ","t","h","a","t"," ","w","i","t","h"," ","m","e","."," ","H","o","w"," ","c","a","n"," ","I"," ","h","e","l","p"," ","y","o","u"," ","w","i","t","h"," ","t","h","i","s","?">>,
     <<"T","h","a","n","k"," ","y","o","u"," ","f","o","r"," ","t","h","a","t"," ","i","n","f","o","r","m","a","t","i","o","n","."," ","W","h","a","t"," ","w","o","u","l","d"," ","y","o","u"," ","l","i","k","e"," ","t","o"," ","k","n","o","w"," ","a","b","o","u","t"," ","o","u","r"," ","s","o","l","u","t","i","o","n","?">>,
     <<"I"," ","s","e","e","."," ","W","h","a","t"," ","c","h","a","l","l","e","n","g","e","s"," ","a","r","e"," ","y","o","u"," ","c","u","r","r","e","n","t","l","y"," ","f","a","c","i","n","g"," ","w","i","t","h"," ","t","h","i","s","?">> >>

\* openaiService.getFallbackResponse; randomIndex is the value of
\* Math.floor(Math.random() * fallbackResponses.length), counted from 1.
getFallbackResponse(conversationHistory, context, randomIndex) ==
  fallbackResponses[randomIndex]

\* ConversationService.shouldEndCall: the termination vocabulary
terminationPhrases ==
  << <<"r","e","m","o","v","e"," ","m","e">>,
     <<"t","a","k","e"," ","m","e"," ","o","f","f">>,
     <<"d","o"," ","n","o","t"," ","c","a","l","l">>,
     <<"n","o","t"," ","i","n","t","e","r","e","s","t","e","d">>,
     <<"s","t","o","p"," ","c","a","l","l","i","n","g">>,
     <<"u","n","s","u","b","s","c","r","i","b","e">>,
     <<"w","r","o","n","g"," ","n","u","m","b","e","r">>,
     <<"g","o","o","d","b","y","e">>,
     <<"h","a","n","g"," ","u","p">>,
     <<"e","n","d"," ","c","a","l","l">> >>

\* ConversationService.updateConversationStep: phases in Object.entries order
stepKeywords ==
  << [step |-> "qualification", keywords |-> {<<"q","u","a","l","i","f","y">>, <<"b","u","d","g","e","t">>, <<"t","i","m","e","l","i","n","e">>, <<"d","e","c","i","s","i","o","n">>}],
     [step |-> "presentation", keywords |-> {<<"s","o","l","u","t","i","o","n">>, <<"p","r","o","d","u","c","t">>, <<"s","e","r","v","i","c","e">>, <<"b","e","n","e","f","i","t">>}],
     [step |-> "objection", keywords |-> {<<"c","o","n","c","e","r","n">>, <<"b","u","t">>, <<"h","o","w","e","v","e","r">>, <<"o","b","j","e","c","t","i","o","n">>}],
     [step |-> "closing", keywords |-> {<<"n","e","x","t"," ","s","t","e","p">>, <<"s","c","h","e","d","u","l","e">>, <<"s","i","g","n"," ","u","p">>, <<"p","u","r","c","h","a","s","e">>}] >>

S_callback == <<"c","a","l","l","b","a","c","k">>

PH_firstName == <<"{","f","i","r","s","t","N","a","m","e","}">>
PH_lastName == <<"{","l","a","s","t","N","a","m","e","}">>
PH_fullName == <<"{","f","u","l","l","N","a","m","e","}">>
PH_company == <<"{","c","o","m","p","a","n","y","}">>
PH_jobTitle == <<"{","j","o","b","T","i","t","l","e","}">>

\* ------------------------------------------------------- pure functions
\* (a variant that compares the speech as it was said)
shouldEndCall_CaseSensitive(customerSpeech) ==
  \E i \in 1..Len(terminationPhrases) : includes(customerSpeech, terminationPhrases[i])

\* ConversationService.shouldEndCall
shouldEndCall(customerSpeech) ==
  LET lowerSpeech == toLowerCase(customerSpeech)
  IN  \E i \in 1..Len(terminationPhrases) : includes(lowerSpeech, terminationPhrases[i])

\* ConversationService.updateConversationStep: the new value of currentStep
RECURSIVE firstStep(_, _, _)
firstStep(i, lowerResponse, currentStep) ==
  IF i > Len(stepKeywords) THEN currentStep
  ELSE IF \E k \in stepKeywords[i].keywords : includes(lowerResponse, k)
       THEN stepKeywords[i].step
       ELSE firstStep(i + 1, lowerResponse, currentStep)

\* (a variant in which the last phase with a keyword in the response wins)
updateConversationStep_LastWins(currentStep, response) ==
  LET m == {i \in 1..Len(stepKeywords) :
              \E k \in stepKeywords[i].keywords : includes(toLowerCase(response), k)}
  IN  IF m = {} THEN currentStep
      ELSE stepKeywords[CHOOSE i \in m : \A j \in m : j <= i].step

updateConversationStep(currentStep, response) ==
  firstStep(1, toLowerCase(response), currentStep)

\* (a variant that keeps the turns of both speakers)
customerMessages_All(history) == history

\* conversationHistory.filter(msg => msg.speaker === 'customer')
customerMessages(history) == SelectSeq(history, LAMBDA m : m.speaker = "customer")

\* (a variant that looks at the signals before the end reason)
determineCallOutcome_SignalsFirst(conversationHistory, extractedInfo, reason) ==
  IF Truthy(extractedInfo.nextSteps) \/ Truthy(extractedInfo.interests)
  THEN "interested"
  ELSE IF reason = "customer-requested" THEN "not-interested"
  ELSE IF Len(customerMessages(conversationHistory)) < 2 THEN "no-answer"
  ELSE IF Len(customerMessages(conversationHistory)) > 5 THEN "interested"
  ELSE "not-interested"

\* (a variant that looks for the callback request before the other signals)
determineCallOutcome_CallbackFirst(conversationHistory, extractedInfo, reason) ==
  IF reason = "customer-requested" THEN "not-interested"
  ELSE IF Truthy(extractedInfo.nextSteps) /\ includes(extractedInfo.nextSteps, S_callback)
       THEN "callback"
  ELSE IF Truthy(extractedInfo.nextSteps) \/ Truthy(extractedInfo.interests)
       THEN "interested"
  ELSE IF Len(customerMessages(conversationHistory)) < 2 THEN "no-answer"
  ELSE IF Len(customerMessages(conversationHistory)) > 5 THEN "interested"
  ELSE "not-interested"

\* ConversationService.determineCallOutcome
determineCallOutcome(conversationHistory, extractedInfo, reason) ==
  IF reason = "customer-requested" THEN "not-interested"
  ELSE IF Truthy(extractedInfo.nextSteps) \/ Truthy(extractedInfo.interests)
       THEN "interested"
  ELSE IF Truthy(extractedInfo.nextSteps) /\ includes(extractedInfo.nextSteps, S_callback)
       THEN "callback"
  ELSE IF Len(customerMessages(conversationHistory)) < 2 THEN "no-answer"
  ELSE IF Len(customerMessages(conversationHistory)) > 5 THEN "interested"
  ELSE "not-interested"

\* Lead virtual fullName
fullName(lead) == trim(lead.firstName \o <<" ">> \o lead.lastName)

\* ConversationService.replacePlaceholders
replacePlaceholders(text, lead) ==
  replaceAll(replaceAll(replaceAll(replaceAll(replaceAll(text,
    PH_firstName, lead.firstName),
    PH_lastName, lead.lastName),
    PH_fullName, fullName(lead)),
    PH_company, lead.company),
    PH_jobTitle, lead.jobTitle)

\* openaiService.analyzeSentiment: customer messages joined by ' ' and trimmed
RECURSIVE joinMessages(_)
joinMessages(msgs) ==
  IF msgs = <<>> THEN <<>>
  ELSE IF Len(msgs) = 1 THEN msgs[1].message
  ELSE msgs[1].message \o <<" ">> \o joinMessages(Tail(msgs))

customerText(history) == trim(joinMessages(customerMessages(history)))

NeutralSentiment == "neutral"

\* ------------------------------------------------------------ Lead model
\* Lead.updateScore: score delta of the outcome
outcomeDelta(callOutcome) ==
  CASE callOutcome = "sale" -> 30
    [] callOutcome = "interested" -> 20
    [] callOutcome = "callback" -> 10
    [] callOutcome = "not-interested" -> 0 - 15
    [] callOutcome = "wrong-number" -> 0 - 30
    [] OTHER -> 0 - 5

sentimentDelta(sentiment) ==
  CASE sentiment = "positive" -> 5
    [] sentiment = "negative" -> 0 - 5
    [] OTHER -> 0

\* (a variant that marks the lead contacted when nobody was reached)
outcomeStatus_ContactedByDefault(callOutcome, status) ==
  CASE callOutcome = "sale" -> "converted"
    [] callOutcome = "interested" -> "interested"
    [] callOutcome = "callback" -> "callback"
    [] callOutcome = "not-interested" -> "not-interested"
    [] callOutcome = "wrong-number" -> "do-not-call"
    [] OTHER -> "contacted"

\* Lead.updateScore: the status for the outcome
outcomeStatus(callOutcome, status) ==
  CASE callOutcome = "sale" -> "converted"
    [] callOutcome = "interested" -> "interested"
    [] callOutcome = "callback" -> "callback"
    [] callOutcome = "not-interested" -> "not-interested"
    [] callOutcome = "wrong-number" -> "do-not-call"
    [] OTHER -> status

Max(a, b) == IF a > b THEN a ELSE b
Min(a, b) == IF a < b THEN a ELSE b

\* (a variant that leaves out the bounds of the score)
updateScore_Unclamped(lead, callOutcome, sentiment) ==
  [lead EXCEPT
     !.status = outcomeStatus(callOutcome, lead.status),
     !.doNotCall = IF callOutcome = "wrong-number" THEN TRUE ELSE lead.doNotCall,
     !.score = lead.score + outcomeDelta(callOutcome) + sentimentDelta(sentiment),
     !.totalCalls = lead.totalCalls + 1]

\* Lead.updateScore: the document after the in-memory mutation (before save)
updateScore(lead, callOutcome, sentiment) ==
  [lead EXCEPT
     !.status = outcomeStatus(callOutcome, lead.status),
     !.doNotCall = IF callOutcome = "wrong-number" THEN TRUE ELSE lead.doNotCall,
     !.score = Max(0, Min(100, lead.score + outcomeDelta(callOutcome) + sentimentDelta(sentiment))),
     !.totalCalls = lead.totalCalls + 1]

\* Lead.scheduleNextCall: the document after the in-memory mutation
scheduleNextCall(lead, retryDelayHours) ==
  IF lead.status = "callback"
  THEN [lead EXCEPT !.nextCallDate = [kind |-> "next-day-9am", hours |-> 0]]
  ELSE IF lead.status = "new" \/ lead.status = "contacted"
  THEN [lead EXCEPT !.nextCallDate = [kind |-> "retry", hours |-> retryDelayHours]]
  ELSE lead

\* (a variant that looks at the status only)
isCallable_StatusOnly(lead) ==
  lead.status # "do-not-call" /\ lead.status # "converted"

\* Lead virtual isCallable
isCallable(lead) ==
  ~lead.doNotCall /\ lead.status # "do-not-call" /\ lead.status # "converted"

NoDate == [kind |-> "none", hours |-> 0]


\* ------------------------------------------------------------ inputs
\* Leads of the Lead collection (documents 1..NumLeads); 0 is an id that
\* Lead.findById does not find.
NumLeads == 1
LeadIds == 1..NumLeads
NoLead == 0

InitialLead ==
  [firstName |-> <<"A","n","a">>, lastName |-> <<"L","e","e">>, company |-> <<>>, jobTitle |-> <<>>,
   score |-> 50, status |-> "new", totalCalls |-> 0, doNotCall |-> FALSE,
   nextCallDate |-> NoDate]

\* Campaign documents the behaviours are checked with: one without script
\* lines (the defaults apply) and one with an opening template and a closing.
Campaigns ==
  { [opening |-> <<>>, closing |-> <<>>],
    [opening |-> <<"H","i"," ","{","f","i","r","s","t","N","a","m","e","}",","," ","i","s"," ","t","h","i","s"," ","{","f","u","l","l","N","a","m","e","}","?">>,
     closing |-> <<"B","y","e"," ","f","o","r"," ","n","o","w",".">>] }

\* SpeechResult values of the gather webhook; the empty text is a request
\* without SpeechResult.
Utterances == { <<>>, <<"Y","e","s">>, <<"G","o","o","d","b","y","e">> }

\* Texts the response generator returns when it succeeds.
GeneratedResponses == { <<"G","r","e","a","t",".">>, <<"W","h","a","t"," ","i","s"," ","y","o","u","r"," ","b","u","d","g","e","t","?">> }

\* Sentiment labels analyzeSentiment returns.
Sentiments == {"positive", "neutral"}

\* Records extractInformation returns; the first is also its result on failure.
EmptyInfo == [nextSteps |-> <<>>, interests |-> <<>>]
ExtractedInfos ==
  { EmptyInfo,
    [nextSteps |-> S_callback, interests |-> <<>>],
    [nextSteps |-> <<>>, interests |-> <<"p","r","i","c","i","n","g">>] }

\* CallStatus values of the status webhook.
TerminalStatuses == {"completed", "failed", "busy", "no-answer"}
CallStatuses == TerminalStatuses \cup {"queued", "ringing", "in-progress"}

\* --------------------------------------------------------------- state
VARIABLES
  activeConversations,  \* ConversationService.activeConversations: callSid -> object, 0 = no entry
  convs,                \* the conversation context objects ever created, by object id
  calls,                \* the Call collection, by _id
  leads,                \* the Lead collection, by _id
  campaign,             \* the Campaign document of the calls
  handlers,             \* the HTTP handlers started so far, a bag of frames: where each stands
  fx,                   \* per conversation object, how often each finalize effect has happened
  probe                 \* the arguments and the result of a function applied on its own

vars == <<activeConversations, convs, calls, leads, campaign, handlers, fx, probe>>

NoResp == [kind |-> "none", text |-> <<>>, code |-> 0]
Gather(text) == [kind |-> "gather", text |-> text, code |-> 200]
HangupTwiML(text) == [kind |-> "hangup", text |-> text, code |-> 200]
Http(code) == [kind |-> "http", text |-> <<>>, code |-> code]

\* A handler's frame: its position (pc) and the locals that live across awaits.
Frame(kind, pc, callSid) ==
  [kind |-> kind, pc |-> pc, callSid |-> callSid, conv |-> 0, leadId |-> 0,
   leadDoc |-> InitialLead, leadFound |-> FALSE, reason |-> "", speech |-> <<>>,
   aiResponse |-> <<>>, genFailed |-> FALSE, sentiment |-> "", outcome |-> "",
   doc |-> <<>>, again |-> FALSE, extractFailed |-> FALSE, leadFailed |-> FALSE,
   resp |-> NoResp, ret |-> "none", err |-> ""]

\* The frame of a handler that has sent its response: what it was about,
\* the response, and what endConversation returned to it ("none" when it was
\* not called, else "null", "summary" or "throw").
Finished(f, resp, ret, err) ==
  [Frame(f.kind, "done", f.callSid) EXCEPT
     !.conv = f.conv, !.reason = f.reason, !.speech = f.speech,
     !.genFailed = f.genFailed, !.again = f.again,
     !.extractFailed = f.extractFailed, !.leadFailed = f.leadFailed,
     !.resp = resp, !.ret = ret, !.err = err]

Done(f, resp, ret) == Finished(f, resp, ret, "")

NoFx == [resolved |-> 0, persisted |-> 0, leadUpdated |-> 0, leadDone |-> 0, removed |-> 0]

\* No function is applied on its own while the handlers run.
NoProbe == [fn |-> "none"]

\* The service before any request.
Idle ==
  /\ activeConversations = [c \in CallSids |-> 0]
  /\ convs = <<>>
  /\ calls = <<>>
  /\ leads = [l \in LeadIds |-> InitialLead]
  /\ handlers = EmptyBag
  /\ fx = <<>>

Init ==
  /\ Idle
  /\ campaign \in Campaigns
  /\ probe = NoProbe

\* Frame f is a handler waiting at pc.
At(f, pc) == f \in BagToSet(handlers) /\ f.pc = pc

\* The number of requests received so far.
Started == BagCardinality(handlers)

\* The handlers without frame f, and a bag of handlers with frame g added.
Without(f) == handlers (-) SetToBag({f})
With(rest, g) == rest (+) SetToBag({g})

\* The frames of the handlers that have not sent their response yet.
Running == {f \in BagToSet(handlers) : f.pc # "done"}

\* The unique index on callSid: a document with this callSid exists.
callExists(callSid) == \E i \in 1..Len(calls) : calls[i].callSid = callSid

\* ------------------------------------------------ POST /initiate
\* A CallSid that Twilio has not assigned yet: nothing knows it.
unusedSid(c) ==
  /\ ~callExists(c)
  /\ activeConversations[c] = 0
  /\ \A f \in BagToSet(handlers) : f.callSid # c

\* The initiate request arrives and the lead is looked up (ok is false when
\* a lookup throws or the campaign is not found or not active); a lead that
\* is not callable is refused.  Otherwise twilioService.makeCall is awaited,
\* which will answer with the new CallSid c.
InitiateStart(c, l, ok) ==
  /\ Started < MaxHandlers
  /\ unusedSid(c)
  /\ LET f == [Frame("initiate", "initiate_save", c) EXCEPT !.leadId = l] IN
     IF ~ok
     THEN handlers' = With(handlers, Done([f EXCEPT !.callSid = 0], Http(500), "none"))
     ELSE IF l \notin LeadIds
     THEN handlers' = With(handlers, Done([f EXCEPT !.callSid = 0], Http(404), "none"))
     ELSE IF ~isCallable(leads[l])
     THEN handlers' = With(handlers, Done([f EXCEPT !.callSid = 0], Http(400), "none"))
     ELSE handlers' = With(handlers, f)
  /\ UNCHANGED <<activeConversations, convs, calls, leads, campaign, probe, fx>>

\* makeCall has returned the CallSid and the save of the call record
\* returns (ok is false when either of them throws); the save fails on a
\* duplicate callSid.
InitiateSave(f, ok) ==
  /\ At(f, "initiate_save")
  /\ IF ~ok \/ callExists(f.callSid)
     THEN /\ handlers' = With(Without(f), Done(f, Http(500), "none"))
          /\ calls' = calls
     ELSE /\ calls' = Append(calls,
               [callSid |-> f.callSid, leadId |-> f.leadId, status |-> "queued",
                outcome |-> "no-answer", conversation |-> <<>>, sentiment |-> "",
                notes |-> ""])
          /\ handlers' = With(Without(f), Done(f, Http(201), "none"))
  /\ UNCHANGED <<activeConversations, convs, leads, campaign, probe, fx>>


\* ------------------------------------------------- POST /twilio/voice
\* ConversationService.initializeConversation: the new context object
initializeConversation(callSid, leadId, lead) ==
  [callSid |-> callSid, leadId |-> leadId, lead |-> lead,
   conversationHistory |-> <<>>, currentStep |-> "opening",
   startTime |-> Len(convs) + 1, callNumber |-> lead.totalCalls + 1]

\* ConversationService.generateOpeningMessage: the opening text
openingMessage(lead) ==
  replacePlaceholders(
    IF Truthy(campaign.opening) THEN campaign.opening
    ELSE DefaultOpeningPrefix \o lead.firstName \o <<"?">>,
    lead)

\* The request arrives and Lead.findById returns the lead (null for an
\* unknown id) or throws; Campaign.findById is awaited.  A handler does
\* nothing between the arrival of its request and its first await, so the
\* two are one step.
VoiceStart(c, l, ok) ==
  /\ Started < MaxHandlers
  /\ LET f == [Frame("voice", "voice_campaign", c) EXCEPT
                 !.leadId = l,
                 !.leadFound = l \in LeadIds,
                 !.leadDoc = IF l \in LeadIds THEN leads[l] ELSE InitialLead]
     IN
     IF ~ok
     THEN /\ handlers' = With(handlers, Done(f, HangupTwiML(VoiceErrorGoodbye), "none"))
     ELSE /\ handlers' = With(handlers, f)
  /\ UNCHANGED <<activeConversations, convs, calls, leads, campaign, probe, fx>>

\* Campaign.findById returns; the conversation is initialized and the
\* initial call record is built; call.save() is awaited.
VoiceCampaign(f, ok) ==
  /\ At(f, "voice_campaign")
  /\ IF ~ok \/ ~f.leadFound
     THEN /\ handlers' = With(Without(f), Done(f, HangupTwiML(VoiceErrorGoodbye), "none"))
          /\ UNCHANGED <<activeConversations, convs, fx>>
     ELSE /\ convs' = Append(convs, initializeConversation(f.callSid, f.leadId, f.leadDoc))
          /\ fx' = Append(fx, NoFx)
          /\ activeConversations' = [activeConversations EXCEPT ![f.callSid] = Len(convs) + 1]
          /\ handlers' = With(Without(f),
               [f EXCEPT !.pc = "voice_save", !.conv = Len(convs) + 1])
  /\ UNCHANGED <<calls, leads, campaign, probe>>

\* call.save() returns: it fails on a duplicate callSid (or for another
\* reason); otherwise the opening message is generated and sent.
VoiceSave(f, ok) ==
  /\ At(f, "voice_save")
  /\ LET opening == openingMessage(convs[f.conv].lead)
     IN
     IF ~ok \/ callExists(f.callSid)
     THEN /\ handlers' = With(Without(f), Done(f, HangupTwiML(VoiceErrorGoodbye), "none"))
          /\ UNCHANGED <<convs, calls>>
     ELSE /\ calls' = Append(calls,
               [callSid |-> f.callSid, leadId |-> f.leadId, status |-> "in-progress",
                outcome |-> "no-answer", conversation |-> <<>>, sentiment |-> "",
                notes |-> ""])
          /\ convs' = [convs EXCEPT ![f.conv].conversationHistory =
               Append(@, [speaker |-> "agent", message |-> opening])]
          /\ handlers' = With(Without(f), Done(f, Gather(opening), "none"))
  /\ UNCHANGED <<activeConversations, leads, campaign, probe, fx>>

\* ------------------------------------- ConversationService.endConversation
Bump(o, field) == [fx EXCEPT ![o][field] = @ + 1]

closingLine == IF Truthy(campaign.closing) THEN campaign.closing ELSE DefaultClosing

\* The caller of endConversation: handleCustomerSpeech for a gather request,
\* the route itself for a status or hangup request.  What it does when it returns ("null" or
\* "summary") or throws: the status and hangup routes answer 200 or 500,
\* handleCustomerSpeech returns the hangup TwiML or, from its catch block,
\* the prompt to repeat.
\* (a variant without the guard: the read of the missing conversation
\* throws into the catch block)
unknownCallResponse_Unguarded == Gather(RepeatPrompt)

\* handleCustomerSpeech's answer for a callSid without a conversation
unknownCallResponse == HangupTwiML(UnknownCallGoodbye)

callerResponse(f, ret) ==
  IF f.kind = "gather"
  THEN IF ret = "throw" THEN Gather(RepeatPrompt) ELSE HangupTwiML(closingLine)
  ELSE IF ret = "throw" THEN Http(500) ELSE Http(200)

\* endConversation returns to its caller f (or throws the error err), whose
\* response is sent; rest is the other handlers.
EndReturn(rest, f, ret, err) ==
  handlers' = With(rest, Finished(f, callerResponse(f, ret), ret, err))

\* The latest conversation object created for callSid (0 when there is none).
lastConv(callSid) ==
  LET os == {o \in 1..Len(convs) : convs[o].callSid = callSid}
  IN  IF os = {} THEN 0 ELSE CHOOSE o \in os : \A o2 \in os : o2 <= o

\* An endConversation call for the latest conversation of callSid has
\* returned its summary.
finalized(callSid) ==
  \E f \in BagToSet(handlers) :
     f.pc = "done" /\ f.ret = "summary" /\ f.callSid = callSid /\ f.conv = lastConv(callSid)

\* endConversation up to its first await: the lookup of the conversation
\* (null is returned when there is none) and the call of analyzeSentiment
\* with the history cv[o] has now.  analyzeSentiment answers with the neutral
\* default, without a request, when the customer has said nothing; that is
\* recorded here and the request's answer is drawn in EndExtract.
EndStart(rest, f, cv) ==
  LET o == activeConversations[f.callSid]
      g == [f EXCEPT !.conv = o, !.pc = "end_extract"]
  IN
  IF o = 0
  THEN /\ EndReturn(rest, [f EXCEPT !.again = finalized(f.callSid)], "null", "")
       /\ fx' = fx
  ELSE /\ handlers' = With(rest, [g EXCEPT !.sentiment =
            IF customerText(cv[o].conversationHistory) = <<>> THEN NeutralSentiment ELSE ""])
       /\ fx' = fx

\* analyzeSentiment has returned s (the neutral default when it failed) and
\* extractInformation returns info ({} when it failed); okS and okI tell
\* whether the two requests succeeded; the outcome is
\* determined from the history as it is now; generateCallSummary is awaited.
\* The return of analyzeSentiment touches nothing but the handler's local,
\* so it is not a step of its own.
EndExtract(f, s, info, okS, okI) ==
  /\ At(f, "end_extract")
  /\ f.sentiment \in {"", s}
  /\ ~okS => (f.sentiment = "" /\ s = NeutralSentiment)
  /\ ~okI => info = EmptyInfo
  /\ LET outcome == determineCallOutcome(convs[f.conv].conversationHistory, info, f.reason)
     IN
     /\ handlers' = With(Without(f),
          [f EXCEPT !.pc = "end_summary", !.sentiment = s, !.outcome = outcome,
                    !.extractFailed = ~okS \/ ~okI])
     /\ fx' = Bump(f.conv, "resolved")
  /\ UNCHANGED <<activeConversations, convs, calls, leads, campaign, probe>>

\* generateCallSummary returns (its fixed sentence when it failed); the
\* call document is built from the history as it is now; call.save() is awaited.
EndSummary(f) ==
  /\ At(f, "end_summary")
  /\ handlers' = With(Without(f),
       [f EXCEPT !.pc = "end_save", !.doc = convs[f.conv].conversationHistory])
  /\ UNCHANGED <<activeConversations, convs, calls, leads, campaign, probe, fx>>

\* call.save() returns: it throws on a duplicate callSid (or for another
\* reason) and endConversation rethrows; otherwise the record is stored and
\* updateLeadFromConversation starts with lead.updateScore, whose save is awaited.
EndSave(f, ok) ==
  /\ At(f, "end_save")
  /\ IF ~ok \/ callExists(f.callSid)
     THEN /\ EndReturn(Without(f), f, "throw", IF ok THEN "duplicate-key" ELSE "io")
          /\ UNCHANGED <<convs, calls, fx>>
     ELSE /\ calls' = Append(calls,
               [callSid |-> f.callSid, leadId |-> convs[f.conv].leadId,
                status |-> "completed", outcome |-> f.outcome,
                conversation |-> f.doc, sentiment |-> f.sentiment, notes |-> "summary"])
          /\ convs' = [convs EXCEPT ![f.conv].lead = updateScore(@, f.outcome, f.sentiment)]
          /\ handlers' = With(Without(f),
               [f EXCEPT !.pc = "end_lead_score"])
          /\ fx' = Bump(f.conv, "persisted")
  /\ UNCHANGED <<activeConversations, leads, campaign, probe>>

\* The paths of the lead document that updateScore marks as modified.
scoreWrite(stored, doc, outcome) ==
  [stored EXCEPT
     !.score = doc.score,
     !.totalCalls = doc.totalCalls,
     !.status = IF outcomeStatus(outcome, "") # "" THEN doc.status ELSE stored.status,
     !.doNotCall = IF outcome = "wrong-number" THEN doc.doNotCall ELSE stored.doNotCall]

\* (a variant that schedules the next call whatever the outcome is)
updateLeadFromConversation_AlwaysSchedules(lead, outcome, sentiment, okScore, okSched) ==
  IF ~okScore THEN lead
  ELSE LET scored == updateScore(lead, outcome, sentiment)
           scheduled == scheduleNextCall(scored, 24)
       IN  IF okSched THEN scheduled ELSE scored

\* ConversationService.updateLeadFromConversation on a lead document that
\* is as the database has it: the stored lead afterwards.  okScore and
\* okSched tell whether the saves of updateScore and of scheduleNextCall
\* succeeded; an error is caught and ends the update.
updateLeadFromConversation(lead, outcome, sentiment, okScore, okSched) ==
  IF ~okScore THEN lead
  ELSE LET scored == updateScore(lead, outcome, sentiment)
           scheduled ==
             IF outcome = "callback" THEN scheduleNextCall(scored, 24)
             ELSE IF outcome = "interested" THEN scheduleNextCall(scored, 72)
             ELSE scored
       IN  IF okSched THEN scheduled ELSE scored

\* (a variant in which a failed save of updateScore is thrown on to the
\* caller of endConversation)
EndLeadScore_Rethrows(f, ok) ==
  /\ At(f, "end_lead_score")
  /\ LET doc == convs[f.conv].lead
         hours == IF f.outcome = "callback" THEN 24 ELSE 72
     IN
     IF ~ok
     THEN /\ EndReturn(Without(f), [f EXCEPT !.leadFailed = TRUE], "throw", "lead")
          /\ fx' = Bump(f.conv, "leadDone")
          /\ UNCHANGED <<convs, leads>>
     ELSE /\ leads' = [leads EXCEPT ![convs[f.conv].leadId] = scoreWrite(@, doc, f.outcome)]
          /\ IF f.outcome \in {"callback", "interested"}
             THEN /\ convs' = [convs EXCEPT ![f.conv].lead = scheduleNextCall(@, hours)]
                  /\ handlers' = With(Without(f), [f EXCEPT !.pc = "end_lead_sched"])
                  /\ fx' = Bump(f.conv, "leadUpdated")
             ELSE /\ convs' = convs
                  /\ handlers' = With(Without(f), [f EXCEPT !.pc = "end_stats"])
                  /\ fx' = [fx EXCEPT ![f.conv].leadUpdated = @ + 1,
                                      ![f.conv].leadDone = @ + 1]
  /\ UNCHANGED <<activeConversations, calls, campaign, probe>>

\* The save of updateScore returns.  A failure is caught by
\* updateLeadFromConversation, which then does nothing more.  Otherwise the
\* next call is scheduled for the outcomes callback and interested,
\* and the next save is awaited.  The closing lead.save() of
\* updateLeadFromConversation writes none of the fields modelled here and its
\* failure is caught, so its return is not a step of its own:
\* campaign.updateStats() is awaited next.
EndLeadScore(f, ok) ==
  /\ At(f, "end_lead_score")
  /\ LET doc == convs[f.conv].lead
         hours == IF f.outcome = "callback" THEN 24 ELSE 72
     IN
     IF ~ok
     THEN /\ handlers' = With(Without(f), [f EXCEPT !.pc = "end_stats", !.leadFailed = TRUE])
          /\ fx' = Bump(f.conv, "leadDone")
          /\ UNCHANGED <<convs, leads>>
     ELSE /\ leads' = [leads EXCEPT ![convs[f.conv].leadId] = scoreWrite(@, doc, f.outcome)]
          /\ IF f.outcome \in {"callback", "interested"}
             THEN /\ convs' = [convs EXCEPT ![f.conv].lead = scheduleNextCall(@, hours)]
                  /\ handlers' = With(Without(f), [f EXCEPT !.pc = "end_lead_sched"])
                  /\ fx' = Bump(f.conv, "leadUpdated")
             ELSE /\ convs' = convs
                  /\ handlers' = With(Without(f), [f EXCEPT !.pc = "end_stats"])
                  /\ fx' = [fx EXCEPT ![f.conv].leadUpdated = @ + 1,
                                      ![f.conv].leadDone = @ + 1]
  /\ UNCHANGED <<activeConversations, calls, campaign, probe>>

\* The save of scheduleNextCall returns (a failure is caught).
EndLeadSched(f, ok) ==
  /\ At(f, "end_lead_sched")
  /\ LET doc == convs[f.conv].lead
     IN
     IF ~ok
     THEN /\ handlers' = With(Without(f), [f EXCEPT !.pc = "end_stats", !.leadFailed = TRUE])
          /\ UNCHANGED leads
     ELSE /\ leads' = [leads EXCEPT ![convs[f.conv].leadId].nextCallDate =
               IF doc.status \in {"callback", "new", "contacted"} THEN doc.nextCallDate ELSE @]
          /\ handlers' = With(Without(f), [f EXCEPT !.pc = "end_stats"])
  /\ fx' = Bump(f.conv, "leadDone")
  /\ UNCHANGED <<activeConversations, convs, calls, campaign, probe>>

\* (a variant that returns the summary without deleting the entry)
EndStats_KeepsEntry(f, ok) ==
  /\ At(f, "end_stats")
  /\ IF ~ok
     THEN EndReturn(Without(f), f, "throw", "io")
     ELSE EndReturn(Without(f), f, "summary", "")
  /\ UNCHANGED <<activeConversations, convs, calls, leads, campaign, probe, fx>>

\* campaign.updateStats() returns: a failure is rethrown by endConversation;
\* otherwise the entry is deleted from activeConversations and the summary
\* is returned.
EndStats(f, ok) ==
  /\ At(f, "end_stats")
  /\ IF ~ok
     THEN /\ EndReturn(Without(f), f, "throw", "io")
          /\ UNCHANGED <<activeConversations, fx>>
     ELSE /\ activeConversations' = [activeConversations EXCEPT ![f.callSid] = 0]
          /\ fx' = IF activeConversations[f.callSid] # 0
                   THEN Bump(activeConversations[f.callSid], "removed") ELSE fx
          /\ EndReturn(Without(f), f, "summary", "")
  /\ UNCHANGED <<convs, calls, leads, campaign, probe>>

\* ------------------------------------------------ POST /twilio/status
\* (a variant whose update of the call record creates the record when there
\* is none)
StatusUpdate_Upserts(c, s, ok) ==
  /\ Started < MaxHandlers
  /\ LET f == [Frame("status", "status_update", c) EXCEPT !.reason = s] IN
     IF ~ok
     THEN /\ handlers' = With(handlers, Done(f, Http(500), "none"))
          /\ UNCHANGED <<calls, fx>>
     ELSE /\ calls' = IF callExists(f.callSid)
                      THEN [i \in 1..Len(calls) |->
                              IF calls[i].callSid = f.callSid
                              THEN [calls[i] EXCEPT !.status = f.reason] ELSE calls[i]]
                      ELSE Append(calls,
                             [callSid |-> f.callSid, leadId |-> NoLead, status |-> f.reason,
                              outcome |-> "no-answer", conversation |-> <<>>,
                              sentiment |-> "", notes |-> ""])
          /\ IF f.reason \in TerminalStatuses
             THEN EndStart(handlers, f, convs)
             ELSE /\ handlers' = With(handlers, Done(f, Http(200), "none"))
                  /\ fx' = fx
  /\ UNCHANGED <<activeConversations, convs, leads, campaign, probe>>

\* The status request arrives and Call.findOneAndUpdate (no upsert) returns
\* or throws; a terminal status then ends the conversation.
StatusUpdate(c, s, ok) ==
  /\ Started < MaxHandlers
  /\ LET f == [Frame("status", "status_update", c) EXCEPT !.reason = s] IN
     IF ~ok
     THEN /\ handlers' = With(handlers, Done(f, Http(500), "none"))
          /\ UNCHANGED <<calls, fx>>
     ELSE /\ calls' = [i \in 1..Len(calls) |->
               IF calls[i].callSid = f.callSid
               THEN [calls[i] EXCEPT !.status = f.reason] ELSE calls[i]]
          /\ IF f.reason \in TerminalStatuses
             THEN EndStart(handlers, f, convs)
             ELSE /\ handlers' = With(handlers, Done(f, Http(200), "none"))
                  /\ fx' = fx
  /\ UNCHANGED <<activeConversations, convs, leads, campaign, probe>>


\* ------------------------------------------------ POST /twilio/gather
Range(seq) == {seq[i] : i \in 1..Len(seq)}

\* (a variant that appends the customer turn to the transcript of every
\* conversation instead of the one of the CallSid)
GatherStart_AllCalls(c, speech) ==
  /\ Started < MaxHandlers
  /\ LET o == activeConversations[c]
         f == [Frame("gather", "speech_ai", c) EXCEPT !.speech = speech, !.conv = o]
         pushed == [i \in DOMAIN convs |-> [convs[i] EXCEPT !.conversationHistory =
                      Append(@, [speaker |-> "customer", message |-> speech])]]
     IN
     IF ~Truthy(speech)
     THEN /\ handlers' = With(handlers, Done([f EXCEPT !.conv = 0], Gather(NoSpeechPrompt), "none"))
          /\ UNCHANGED <<convs, fx>>
     ELSE IF o = 0
     THEN /\ handlers' = With(handlers, Done(f, unknownCallResponse, "none"))
          /\ UNCHANGED <<convs, fx>>
     ELSE /\ convs' = pushed
          /\ IF shouldEndCall(speech)
             THEN EndStart(handlers, [f EXCEPT !.reason = "customer-requested"], pushed)
             ELSE /\ handlers' = With(handlers, f)
                  /\ fx' = fx
  /\ UNCHANGED <<activeConversations, calls, leads, campaign, probe>>

\* The gather request arrives.  Without SpeechResult the route asks again.
\* Otherwise handleCustomerSpeech runs up to its first await: without an
\* active conversation it answers with a hangup; else it appends the
\* customer turn and either ends the conversation (shouldEndCall) or awaits
\* generateAIResponse.
GatherStart(c, speech) ==
  /\ Started < MaxHandlers
  /\ LET o == activeConversations[c]
         f == [Frame("gather", "speech_ai", c) EXCEPT !.speech = speech, !.conv = o]
         pushed == [convs EXCEPT ![o].conversationHistory =
                      Append(@, [speaker |-> "customer", message |-> speech])]
     IN
     IF ~Truthy(speech)
     THEN /\ handlers' = With(handlers, Done([f EXCEPT !.conv = 0], Gather(NoSpeechPrompt), "none"))
          /\ UNCHANGED <<convs, fx>>
     ELSE IF o = 0
     THEN /\ handlers' = With(handlers, Done(f, unknownCallResponse, "none"))
          /\ UNCHANGED <<convs, fx>>
     ELSE /\ convs' = pushed
          /\ IF shouldEndCall(speech)
             THEN EndStart(handlers, [f EXCEPT !.reason = "customer-requested"], pushed)
             ELSE /\ handlers' = With(handlers, f)
                  /\ fx' = fx
  /\ UNCHANGED <<activeConversations, calls, leads, campaign, probe>>

\* (a variant in which a failed request throws into the catch block of
\* handleCustomerSpeech instead of yielding a fallback response)
SpeechAI_Throws(f, ok, r) ==
  /\ At(f, "speech_ai")
  /\ r \in GeneratedResponses
  /\ LET history == Append(convs[f.conv].conversationHistory,
                           [speaker |-> "agent", message |-> r])
     IN
     IF ok
     THEN /\ convs' = [convs EXCEPT
               ![f.conv].conversationHistory = history,
               ![f.conv].currentStep = updateConversationStep(@, r)]
          /\ handlers' = With(Without(f),
               [f EXCEPT !.pc = "speech_save", !.aiResponse = r, !.doc = history])
     ELSE /\ convs' = convs
          /\ handlers' = With(Without(f),
               Done([f EXCEPT !.genFailed = TRUE], Gather(RepeatPrompt), "none"))
  /\ UNCHANGED <<activeConversations, calls, leads, campaign, probe, fx>>

\* generateAIResponse returns: the generated text, or one of the fallback
\* responses when the request failed (openaiService.generateResponse catches
\* its own errors).  The agent turn is appended, the step updated and
\* saveConversationState awaited.
SpeechAI(f, ok, r) ==
  /\ At(f, "speech_ai")
  /\ r \in (IF ok THEN GeneratedResponses ELSE Range(fallbackResponses))
  /\ LET history == Append(convs[f.conv].conversationHistory,
                           [speaker |-> "agent", message |-> r])
     IN
     /\ convs' = [convs EXCEPT
          ![f.conv].conversationHistory = history,
          ![f.conv].currentStep = updateConversationStep(@, r)]
     /\ handlers' = With(Without(f),
          [f EXCEPT !.pc = "speech_save", !.aiResponse = r, !.genFailed = ~ok,
                    !.doc = history])
  /\ UNCHANGED <<activeConversations, calls, leads, campaign, probe, fx>>

\* saveConversationState: Call.findOneAndUpdate with upsert
saveConversationState(callSid, history) ==
  IF callExists(callSid)
  THEN [i \in 1..Len(calls) |->
          IF calls[i].callSid = callSid
          THEN [calls[i] EXCEPT !.conversation = history, !.status = "in-progress"]
          ELSE calls[i]]
  ELSE Append(calls,
         [callSid |-> callSid, leadId |-> NoLead, status |-> "in-progress",
          outcome |-> "no-answer", conversation |-> history, sentiment |-> "",
          notes |-> ""])

\* saveConversationState returns (a failure is caught and logged); the TwiML
\* with the response and the next gather is sent.
SpeechSave(f, ok) ==
  /\ At(f, "speech_save")
  /\ /\ calls' = IF ok THEN saveConversationState(f.callSid, f.doc) ELSE calls
     /\ handlers' = With(Without(f), Done(f, Gather(f.aiResponse), "none"))
  /\ UNCHANGED <<activeConversations, convs, leads, campaign, probe, fx>>

\* ------------------------------------------------ POST /:id/hangup
\* The hangup request arrives and Call.findById returns the record (none
\* for id 0) or throws; twilioService.hangupCall is awaited.
HangupFind(id, ok) ==
  /\ Started < MaxHandlers
  /\ id \in 0..Len(calls)
  /\ LET c == IF id = 0 THEN 0 ELSE calls[id].callSid
         f == [Frame("hangup", "hangup_twilio", c) EXCEPT !.reason = "manual-hangup"]
     IN
     IF ~ok
     THEN /\ handlers' = With(handlers, Done(f, Http(500), "none"))
     ELSE IF id = 0
     THEN /\ handlers' = With(handlers, Done(f, Http(404), "none"))
     ELSE IF calls[id].status = "completed"
     THEN /\ handlers' = With(handlers, Done(f, Http(400), "none"))
     ELSE /\ handlers' = With(handlers, f)
  /\ UNCHANGED <<activeConversations, convs, calls, leads, campaign, probe, fx>>

\* hangupCall returns or throws; then the conversation is ended.
HangupTwilio(f, ok) ==
  /\ At(f, "hangup_twilio")
  /\ IF ~ok
     THEN /\ handlers' = With(Without(f), Done(f, Http(500), "none"))
          /\ fx' = fx
     ELSE EndStart(Without(f), f, convs)
  /\ UNCHANGED <<activeConversations, convs, calls, leads, campaign, probe>>


Next ==
  \/ \E c \in CallSids, l \in LeadIds \cup {NoLead}, ok \in BOOLEAN : InitiateStart(c, l, ok)
  \/ \E f \in Running, ok \in BOOLEAN : InitiateSave(f, ok)
  \/ \E c \in CallSids, l \in LeadIds \cup {NoLead}, ok \in BOOLEAN : VoiceStart(c, l, ok)
  \/ \E f \in Running, ok \in BOOLEAN : VoiceCampaign(f, ok)
  \/ \E f \in Running, ok \in BOOLEAN : VoiceSave(f, ok)
  \/ \E c \in CallSids, s \in CallStatuses, ok \in BOOLEAN : StatusUpdate(c, s, ok)
  \/ \E c \in CallSids, speech \in Utterances : GatherStart(c, speech)
  \/ \E f \in Running, ok \in BOOLEAN, r \in GeneratedResponses \cup Range(fallbackResponses) :
        SpeechAI(f, ok, r)
  \/ \E f \in Running, ok \in BOOLEAN : SpeechSave(f, ok)
  \/ \E id \in 0..MaxHandlers, ok \in BOOLEAN : HangupFind(id, ok)
  \/ \E f \in Running, ok \in BOOLEAN : HangupTwilio(f, ok)
  \/ \E f \in Running, s \in Sentiments, info \in ExtractedInfos, okS \in BOOLEAN, okI \in BOOLEAN :
        EndExtract(f, s, info, okS, okI)
  \/ \E f \in Running : EndSummary(f)
  \/ \E f \in Running, ok \in BOOLEAN : EndSave(f, ok)
  \/ \E f \in Running, ok \in BOOLEAN : EndLeadScore(f, ok)
  \/ \E f \in Running, ok \in BOOLEAN : EndLeadSched(f, ok)
  \/ \E f \in Running, ok \in BOOLEAN : EndStats(f, ok)

Spec == Init /\ [][Next]_vars

\* A campaign without script lines.
NoScript == [opening |-> <<>>, closing |-> <<>>]

\* ------------------------------------------------ several calls at a time
\* The service with PairCalls CallSids: the same handlers, requests
\* arriving for any of the CallSids.
PairCalls == 2

PairSids == 1..PairCalls

PairInit ==
  /\ activeConversations = [c \in PairSids |-> 0]
  /\ convs = <<>>
  /\ calls = <<>>
  /\ leads = [l \in LeadIds |-> InitialLead]
  /\ handlers = EmptyBag
  /\ fx = <<>>
  /\ campaign = NoScript
  /\ probe = NoProbe

PairNext ==
  \/ \E c \in PairSids, l \in LeadIds \cup {NoLead}, ok \in BOOLEAN : InitiateStart(c, l, ok)
  \/ \E f \in Running, ok \in BOOLEAN : InitiateSave(f, ok)
  \/ \E c \in PairSids, l \in LeadIds \cup {NoLead}, ok \in BOOLEAN : VoiceStart(c, l, ok)
  \/ \E f \in Running, ok \in BOOLEAN : VoiceCampaign(f, ok)
  \/ \E f \in Running, ok \in BOOLEAN : VoiceSave(f, ok)
  \/ \E c \in PairSids, s \in CallStatuses, ok \in BOOLEAN : StatusUpdate(c, s, ok)
  \/ \E c \in PairSids, speech \in Utterances : GatherStart(c, speech)
  \/ \E f \in Running, ok \in BOOLEAN, r \in GeneratedResponses \cup Range(fallbackResponses) :
        SpeechAI(f, ok, r)
  \/ \E f \in Running, ok \in BOOLEAN : SpeechSave(f, ok)
  \/ \E id \in 0..MaxHandlers, ok \in BOOLEAN : HangupFind(id, ok)
  \/ \E f \in Running, ok \in BOOLEAN : HangupTwilio(f, ok)
  \/ \E f \in Running, s \in Sentiments, info \in ExtractedInfos, okS \in BOOLEAN, okI \in BOOLEAN :
        EndExtract(f, s, info, okS, okI)
  \/ \E f \in Running : EndSummary(f)
  \/ \E f \in Running, ok \in BOOLEAN : EndSave(f, ok)
  \/ \E f \in Running, ok \in BOOLEAN : EndLeadScore(f, ok)
  \/ \E f \in Running, ok \in BOOLEAN : EndLeadSched(f, ok)
  \/ \E f \in Running, ok \in BOOLEAN : EndStats(f, ok)

SpecPair == PairInit /\ [][PairNext]_vars

\* ------------------------------------------ the events one at a time
\* No handler for CallSid c is running.
Quiet(c) == \A f \in Running : f.callSid # c

\* The service when the events of a call are processed one at a time: a
\* request for a CallSid arrives only when every handler of an earlier
\* request for it has sent its response.
SerialNext ==
  \/ \E c \in CallSids, l \in LeadIds \cup {NoLead}, ok \in BOOLEAN :
        Quiet(c) /\ InitiateStart(c, l, ok)
  \/ \E f \in Running, ok \in BOOLEAN : InitiateSave(f, ok)
  \/ \E c \in CallSids, l \in LeadIds \cup {NoLead}, ok \in BOOLEAN :
        Quiet(c) /\ VoiceStart(c, l, ok)
  \/ \E f \in Running, ok \in BOOLEAN : VoiceCampaign(f, ok)
  \/ \E f \in Running, ok \in BOOLEAN : VoiceSave(f, ok)
  \/ \E c \in CallSids, s \in CallStatuses, ok \in BOOLEAN :
        Quiet(c) /\ StatusUpdate(c, s, ok)
  \/ \E c \in CallSids, speech \in Utterances : Quiet(c) /\ GatherStart(c, speech)
  \/ \E f \in Running, ok \in BOOLEAN, r \in GeneratedResponses \cup Range(fallbackResponses) :
        SpeechAI(f, ok, r)
  \/ \E f \in Running, ok \in BOOLEAN : SpeechSave(f, ok)
  \/ \E id \in 0..MaxHandlers, ok \in BOOLEAN : Running = {} /\ HangupFind(id, ok)
  \/ \E f \in Running, ok \in BOOLEAN : HangupTwilio(f, ok)
  \/ \E f \in Running, s \in Sentiments, info \in ExtractedInfos, okS \in BOOLEAN, okI \in BOOLEAN :
        EndExtract(f, s, info, okS, okI)
  \/ \E f \in Running : EndSummary(f)
  \/ \E f \in Running, ok \in BOOLEAN : EndSave(f, ok)
  \/ \E f \in Running, ok \in BOOLEAN : EndLeadScore(f, ok)
  \/ \E f \in Running, ok \in BOOLEAN : EndLeadSched(f, ok)
  \/ \E f \in Running, ok \in BOOLEAN : EndStats(f, ok)

SpecSerial == Init /\ [][SerialNext]_vars

\* ===================================================================
\* Functions applied on their own
\* ===================================================================

\* ------------------------------ ConversationService.determineCallOutcome
\* Transcripts have up to MaxTurns turns.
MaxTurns == 7

Speakers == {"agent", "customer"}

\* The transcript whose turns have the speakers sp[1], sp[2], ...
transcript(sp) ==
  [i \in DOMAIN sp |-> [speaker |-> sp[i], message |-> <<"O","k">>]]

Transcripts == UNION {{transcript(sp) : sp \in [1..n -> Speakers]} : n \in 0..MaxTurns}

\* Values of the fields nextSteps and interests that extractInformation
\* returns; the empty text stands for null or a missing field.
NextStepsValues ==
  { <<>>, S_callback, <<"d","e","m","o">>,
    <<"a"," ","c","a","l","l","b","a","c","k"," ","o","n"," ","M","o","n","d","a","y">> }
InterestsValues == {<<>>, <<"p","r","i","c","i","n","g">>}

\* The reasons endConversation is called with.
EndReasons == TerminalStatuses \cup {"customer-requested", "manual-hangup"}

OutcomeInit ==
  /\ Idle
  /\ campaign = NoScript
  /\ \E h \in Transcripts, ns \in NextStepsValues, it \in InterestsValues, r \in EndReasons :
        probe = [fn |-> "determineCallOutcome", conversationHistory |-> h,
                 extractedInfo |-> [nextSteps |-> ns, interests |-> it],
                 reason |-> r, out |-> ""]

ResolveOutcome ==
  /\ probe.out = ""
  /\ probe' = [probe EXCEPT !.out =
        determineCallOutcome(probe.conversationHistory, probe.extractedInfo, probe.reason)]
  /\ UNCHANGED <<activeConversations, convs, calls, leads, campaign, handlers, fx>>

OutcomeNext == ResolveOutcome

SpecOutcome == OutcomeInit /\ [][OutcomeNext]_vars

\* ===================================================================
\* Properties
\* ===================================================================
Frames == BagToSet(handlers)

\* The frames that a step has produced.
NewFrames == {g \in BagToSet(handlers') : CopiesIn(g, handlers') > CopiesIn(g, handlers)}

\* The step is the arrival of a request.
Arrival == BagCardinality(handlers') > BagCardinality(handlers)

\* The step resumes the suspended handler f.
Resumes(f) == CopiesIn(f, handlers') < CopiesIn(f, handlers)

EndPcs == {"end_extract", "end_summary", "end_save", "end_lead_score",
           "end_lead_sched", "end_stats"}

recordsOf(cs, c) == {i \in 1..Len(cs) : cs[i].callSid = c}

\* The call records that carry the outcome of a finalized call.
outcomeRecords(c) == {i \in recordsOf(calls, c) : calls[i].notes = "summary"}

agentTurns(history) == SelectSeq(history, LAMBDA m : m.speaker = "agent")

\* The agent turns of the persisted transcript of call c.
persistedAgentTurns(cs, c) ==
  IF recordsOf(cs, c) = {} THEN <<>>
  ELSE agentTurns(cs[CHOOSE i \in recordsOf(cs, c) : TRUE].conversation)

\* An endConversation call that found the conversation o has run to its end:
\* it has returned the summary or has thrown.
endedBy(f, o) == f.pc = "done" /\ f.conv = o /\ f.ret \in {"summary", "throw"}

\* A terminal status or a hangup has been processed for the conversation o,
\* and no request to the database failed meanwhile.
ended(o) ==
  \E f \in Frames : f.kind \in {"status", "hangup"} /\ endedBy(f, o) /\ f.err # "io"

\* The endConversation calls in flight for the conversation o.
endersOf(o) ==
  LET fs == {f \in Frames : f.conv = o /\ f.pc \in EndPcs}
  IN  [f \in fs |-> handlers[f]]

\* C1: when an endConversation call that found the state of a CallId has run
\* to its end, exactly one call record for that CallId carries the outcome,
\* and that state is no longer in activeConversations, also when a record for
\* the CallId existed already.  Stated for the calls during which no request
\* to the database failed for a reason other than the record being there.
C1_OneOutcomeRecord ==
  \A f \in Frames :
     (f.pc = "done" /\ f.ret \in {"summary", "throw"} /\ f.err # "io")
       => /\ Cardinality(outcomeRecords(f.callSid)) = 1
          /\ activeConversations[f.callSid] # f.conv

\* C2: when a terminal status or a hangup has been processed for a call
\* while handleCustomerSpeech waits for the generator (or for the save that
\* follows), the rest of handleCustomerSpeech appends no agent turn to the
\* call's transcript, neither in memory nor in the call record.
C2_LateResponseDiscarded ==
  [][\A g \in Running :
       (g.kind = "gather" /\ g.pc \in {"speech_ai", "speech_save"}
          /\ ended(g.conv) /\ Resumes(g))
       => /\ agentTurns(convs'[g.conv].conversationHistory)
               = agentTurns(convs[g.conv].conversationHistory)
          /\ persistedAgentTurns(calls', g.callSid)
               = persistedAgentTurns(calls, g.callSid)]_vars

\* C3: when two endConversation calls for the same conversation are in
\* flight together, at most one outcome is resolved for it (and so at most
\* one record written, one lead update made and one removal done).
C3_FinalizeOnce ==
  \A o \in 1..Len(convs) :
     BagCardinality(endersOf(o)) >= 2
       => /\ fx[o].resolved <= 1
          /\ fx[o].persisted <= 1
          /\ fx[o].leadUpdated <= 1
          /\ fx[o].removed <= 1

\* The call records without their status, which the status route itself writes.
sansStatus(cs) == [i \in 1..Len(cs) |-> [cs[i] EXCEPT !.status = ""]]

\* C4: an endConversation call for a CallId whose latest conversation an
\* earlier call has finalized returns null at its lookup, and writes no
\* call record, updates no lead, resolves nothing and removes nothing.
C4_SecondEndIsNoOp ==
  [][\A g \in NewFrames :
       (g.reason # "" /\ (g.pc = "end_extract" \/ (g.pc = "done" /\ g.ret = "null"))
          /\ finalized(g.callSid))
       => /\ g.pc = "done" /\ g.ret = "null"
          /\ sansStatus(calls') = sansStatus(calls)
          /\ UNCHANGED <<activeConversations, convs, leads, fx>>]_vars

\* C4 happens: an endConversation call has returned null after an earlier
\* one had returned the summary of the CallId's latest conversation.
C4_Witness ==
  \E g \in Frames : g.pc = "done" /\ g.ret = "null" /\ g.again

\* C5: handleCustomerSpeech for a CallId without an entry in
\* activeConversations answers at once with the goodbye of an unknown call:
\* it waits for no generator, creates no state, and changes no transcript,
\* no call record and no lead.
C5_UnknownCallRejected ==
  [][\A g \in NewFrames :
       (Arrival /\ g.kind = "gather" /\ Truthy(g.speech)
          /\ activeConversations[g.callSid] = 0)
       => /\ g.pc = "done" /\ g.ret = "none" /\ g.conv = 0
          /\ g.resp = HangupTwiML(UnknownCallGoodbye)
          /\ UNCHANGED <<activeConversations, convs, calls, leads, fx>>]_vars

\* C5 happens: speech for a CallId without state has been answered.
C5_Witness ==
  \E g \in Frames :
     /\ g.kind = "gather" /\ g.pc = "done" /\ Truthy(g.speech) /\ g.conv = 0
     /\ g.resp = HangupTwiML(UnknownCallGoodbye)
     /\ activeConversations[g.callSid] = 0

\* The state of CallId c that activeConversations ac holds among the objects cv.
stateOf(cv, ac, c) ==
  LET st == cv[ac[c]]
  IN  [conversationHistory |-> st.conversationHistory, currentStep |-> st.currentStep,
       startTime |-> st.startTime, callNumber |-> st.callNumber]

\* C6: initializeConversation for a CallId that has a state leaves that
\* state as it is: the same transcript, currentStep, startTime and
\* callContext (its callNumber).
C6_DuplicateInitRejected ==
  [][\A f \in Running :
       (f.kind = "voice" /\ f.pc = "voice_campaign" /\ Resumes(f)
          /\ activeConversations[f.callSid] # 0)
       => /\ activeConversations'[f.callSid] # 0
          /\ stateOf(convs', activeConversations', f.callSid)
               = stateOf(convs, activeConversations, f.callSid)]_vars

\* C7: handleCustomerSpeech, for an utterance for which shouldEndCall is
\* true, ends the call (endConversation returns the summary) and answers
\* with the hangup that carries the closing line; it does not ask the
\* customer to go on.  Stated for the calls during which no request to the
\* database failed for a reason other than the record being there.
C7_GoodbyeEndsCall ==
  \A f \in Frames :
     (f.kind = "gather" /\ f.pc = "done" /\ f.reason = "customer-requested"
        /\ f.err # "io")
       => /\ f.ret = "summary"
          /\ f.resp = HangupTwiML(closingLine)

\* C8: when the generator's request fails, handleCustomerSpeech appends
\* exactly one agent turn, one of the fixed fallback responses, removes no
\* state, and answers with that text and a gather for the next speech.
C8_FallbackOnGeneratorFailure ==
  [][\A g \in NewFrames :
       (g.kind = "gather" /\ g.genFailed)
       => /\ activeConversations' = activeConversations
          /\ \/ /\ g.pc = "speech_save"
                /\ g.aiResponse \in Range(fallbackResponses)
                /\ convs'[g.conv].conversationHistory
                     = Append(convs[g.conv].conversationHistory,
                              [speaker |-> "agent", message |-> g.aiResponse])
             \/ /\ g.pc = "done"
                /\ g.resp.kind = "gather"
                /\ g.resp.text \in Range(fallbackResponses)
                /\ convs' = convs]_vars

\* C8 happens: a turn whose generator request failed has been answered on a
\* call that is still active, the fallback being the transcript's last turn.
C8_Witness ==
  \E g \in Frames :
     /\ g.kind = "gather" /\ g.pc = "done" /\ g.genFailed
     /\ g.conv # 0 /\ activeConversations[g.callSid] = g.conv
     /\ LET h == convs[g.conv].conversationHistory
        IN  Len(h) >= 2 /\ h[Len(h)] = [speaker |-> "agent", message |-> g.resp.text]
                       /\ h[Len(h) - 1].speaker = "customer"

\* C9: a request that brings a terminal status, and a hangup request, for a
\* CallId with a state always goes on to endConversation for that state,
\* whatever its currentStep; a request that brings the status queued,
\* ringing or in-progress ends nothing.
C9_TerminalAlwaysEnds ==
  [][\A g \in NewFrames :
       /\ (Arrival /\ g.kind = "status"
             /\ g.reason \in {"completed", "failed", "busy", "no-answer"}
             /\ activeConversations[g.callSid] # 0)
            => (g.pc = "end_extract" /\ g.conv = activeConversations[g.callSid])
       /\ (Arrival /\ g.kind = "hangup" /\ g.callSid \in CallSids
             /\ activeConversations[g.callSid] # 0)
            => g.pc = "hangup_twilio"
       /\ (g.kind = "hangup" /\ (\E f \in Running : f.pc = "hangup_twilio" /\ Resumes(f))
             /\ activeConversations[g.callSid] # 0)
            => (g.pc = "end_extract" /\ g.conv = activeConversations[g.callSid]
                  /\ g.reason = "manual-hangup")
       /\ (Arrival /\ g.kind = "status"
             /\ g.reason \in {"queued", "ringing", "in-progress"})
            => (g.pc = "done" /\ g.ret = "none"
                  /\ UNCHANGED <<activeConversations, convs, fx>>)]_vars

\* C10: once a terminal status has been handled for a state and every
\* handler has run to its end, the state is no longer in activeConversations.
\* Stated for the calls during which no request to the database failed for a
\* reason other than the record being there.
C10_EveryStateFinalized ==
  Running = {}
    => \A c \in CallSids :
          activeConversations[c] # 0
            => ~\E f \in Frames :
                   /\ f.kind = "status" /\ f.err # "io"
                   /\ endedBy(f, activeConversations[c])

\* C11: a state that activeConversations.delete has taken out of the map
\* has had its outcome determined, its call record persisted and its lead
\* update run to completion before, and it is taken out at most once.
C11_RemovedAfterFinalize ==
  \A o \in 1..Len(convs) :
     /\ fx[o].removed <= 1
     /\ fx[o].removed >= 1
          => (fx[o].resolved >= 1 /\ fx[o].persisted >= 1 /\ fx[o].leadDone >= 1)

\* ------------------------------------------------------ Lead.updateScore
\* The largest score of the Lead schema.
MaxScore == 100

\* updateScore is applied up to MaxUpdates times in a row.
MaxUpdates == 2

\* The outcomes of the Call schema; voicemail and no-answer have no case of
\* their own in updateScore.
CallOutcomes == {"sale", "interested", "not-interested", "callback",
                 "voicemail", "wrong-number", "no-answer"}

\* sentiment.overall; the empty text is a call without a sentiment.
SentimentValues == {"positive", "neutral", "negative", ""}

ScoreInit ==
  /\ Idle
  /\ campaign = NoScript
  /\ \E sc \in 0..MaxScore :
        probe = [fn |-> "updateScore", lead |-> [InitialLead EXCEPT !.score = sc],
                 before |-> sc, callOutcome |-> "", sentiment |-> ""]

ApplyScore(callOutcome, sentiment) ==
  /\ probe.lead.totalCalls < MaxUpdates
  /\ probe' = [probe EXCEPT !.before = probe.lead.score,
                            !.callOutcome = callOutcome,
                            !.sentiment = sentiment,
                            !.lead = updateScore(probe.lead, callOutcome, sentiment)]
  /\ UNCHANGED <<activeConversations, convs, calls, leads, campaign, handlers, fx>>

ScoreNext == \E o \in CallOutcomes, s \in SentimentValues : ApplyScore(o, s)

SpecScore == ScoreInit /\ [][ScoreNext]_vars

\* ------------------------------------------- one lead and its documents
\* Up to MaxDocs documents of the lead are loaded by Lead.findById or by
\* populate; each is the copy a request or a conversation works on.
MaxDocs == 2

\* Delays scheduleNextCall is called with.
RetryDelays == {24, 72}

LeadInit ==
  /\ Idle
  /\ campaign = NoScript
  /\ probe = [fn |-> "lead", stored |-> InitialLead, docs |-> <<>>,
              updates |-> 0, wrong |-> FALSE]

\* Lead.findById / populate('leadId'): a copy of the stored document.
LeadLoad ==
  /\ Len(probe.docs) < MaxDocs
  /\ probe' = [probe EXCEPT !.docs = Append(@,
        [doc |-> probe.stored, afterWrong |-> probe.wrong, live |-> TRUE,
         verdict |-> "none"])]
  /\ UNCHANGED <<activeConversations, convs, calls, leads, campaign, handlers, fx>>

\* updateScore on a loaded document and its save.  A failed save ends the
\* caller's work on the document (the route answers 500,
\* updateLeadFromConversation returns from its catch).
LeadUpdateScore(i, callOutcome, sentiment, ok) ==
  /\ probe.docs[i].live
  /\ probe.updates < MaxUpdates
  /\ LET d == updateScore(probe.docs[i].doc, callOutcome, sentiment)
     IN  probe' = [probe EXCEPT
           !.docs[i].doc = d,
           !.docs[i].live = ok,
           !.stored = IF ok THEN scoreWrite(@, d, callOutcome) ELSE @,
           !.updates = @ + 1,
           !.wrong = @ \/ (ok /\ callOutcome = "wrong-number")]
  /\ UNCHANGED <<activeConversations, convs, calls, leads, campaign, handlers, fx>>

\* scheduleNextCall on a loaded document and its save.
LeadSchedule(i, retryDelayHours) ==
  /\ probe.docs[i].live
  /\ LET d == scheduleNextCall(probe.docs[i].doc, retryDelayHours)
     IN  probe' = [probe EXCEPT
           !.docs[i].doc = d,
           !.stored.nextCallDate =
              IF d.nextCallDate # probe.docs[i].doc.nextCallDate
              THEN d.nextCallDate ELSE @]
  /\ UNCHANGED <<activeConversations, convs, calls, leads, campaign, handlers, fx>>

\* POST /initiate, if (!lead.isCallable): the answer for a loaded document.
LeadCheck(i) ==
  /\ probe.docs[i].live
  /\ probe.docs[i].verdict = "none"
  /\ probe' = [probe EXCEPT
        !.docs[i].verdict = IF isCallable(probe.docs[i].doc) THEN "accepted" ELSE "rejected",
        !.docs[i].live = FALSE]
  /\ UNCHANGED <<activeConversations, convs, calls, leads, campaign, handlers, fx>>

LeadNext ==
  \/ LeadLoad
  \/ \E i \in DOMAIN probe.docs, o \in CallOutcomes, s \in Sentiments, ok \in BOOLEAN :
        LeadUpdateScore(i, o, s, ok)
  \/ \E i \in DOMAIN probe.docs, h \in RetryDelays : LeadSchedule(i, h)
  \/ \E i \in DOMAIN probe.docs : LeadCheck(i)

SpecLead == LeadInit /\ [][LeadNext]_vars

\* ------------------------ ConversationService.updateLeadFromConversation
\* Values of the lead's status, score and nextCallDate before the call.
LeadStatuses == {"new", "contacted", "callback", "interested", "not-interested"}
LeadScores == {0, 50, MaxScore}
NextCallDates == {NoDate, [kind |-> "retry", hours |-> 24]}

UpdateLeadInit ==
  /\ Idle
  /\ campaign = NoScript
  /\ \E st \in LeadStatuses, sc \in LeadScores, d \in NextCallDates,
        o \in CallOutcomes, s \in Sentiments :
        probe = [fn |-> "updateLeadFromConversation",
                 lead |-> [InitialLead EXCEPT !.status = st, !.score = sc, !.nextCallDate = d],
                 outcome |-> o, sentiment |-> s, updated |-> FALSE, saved |-> FALSE,
                 stored |-> InitialLead]

UpdateLead(okScore, okSched) ==
  /\ ~probe.updated
  /\ probe' = [probe EXCEPT
        !.updated = TRUE,
        !.saved = okScore,
        !.stored = updateLeadFromConversation(probe.lead, probe.outcome, probe.sentiment,
                                              okScore, okSched)]
  /\ UNCHANGED <<activeConversations, convs, calls, leads, campaign, handlers, fx>>

UpdateLeadNext == \E okScore \in BOOLEAN, okSched \in BOOLEAN : UpdateLead(okScore, okSched)

SpecUpdateLead == UpdateLeadInit /\ [][UpdateLeadNext]_vars

\* ------------------------------------------------- PUT /:id/outcome
\* The database after one call of lead 1 has been finalized by
\* endConversation: its call record, and the lead as updateScore has left it.
FinalizedCall(outcome, sentiment) ==
  [callSid |-> 1, leadId |-> 1, status |-> "completed", outcome |-> outcome,
   conversation |-> <<>>, sentiment |-> sentiment, notes |-> "summary"]

\* Number of PUT /:id/outcome requests received in one behaviour.
MaxManual == 2

ManualInit ==
  /\ activeConversations = [c \in CallSids |-> 0]
  /\ convs = <<>>
  /\ handlers = EmptyBag
  /\ fx = <<>>
  /\ campaign = NoScript
  /\ probe = NoProbe
  /\ \E o \in {"not-interested", "interested", "no-answer"}, s \in Sentiments :
        /\ calls = <<FinalizedCall(o, s)>>
        /\ leads = [l \in LeadIds |-> updateScore(InitialLead, o, s)]

\* The values of req.body.outcome: a valid outcome, none, or an invalid one.
BodyOutcomes == CallOutcomes \cup {"", "maybe"}
\* The values of req.body.notes: none or a text.
BodyNotes == {"", "manual"}

\* The request arrives: an invalid outcome is refused; Call.findById with
\* its populate returns the call (none for id 0) and a copy of its lead, or
\* throws; the fields of the body are assigned and call.save() is awaited.
PutOutcomeFind(id, outcome, notes, ok) ==
  /\ Started < MaxManual
  /\ id \in 0..Len(calls)
  /\ LET c == IF id = 0 THEN 0 ELSE calls[id].callSid
         f == Frame("outcome", "outcome_save", c) @@ [id |-> id, notes |-> notes]
     IN
     IF outcome # "" /\ outcome \notin CallOutcomes
     THEN handlers' = With(handlers, Done(f, Http(400), "none"))
     ELSE IF ~ok
     THEN handlers' = With(handlers, Done(f, Http(500), "none"))
     ELSE IF id = 0
     THEN handlers' = With(handlers, Done(f, Http(404), "none"))
     ELSE handlers' = With(handlers,
            [f EXCEPT !.outcome = outcome, !.leadId = calls[id].leadId,
                      !.leadFound = calls[id].leadId \in LeadIds,
                      !.leadDoc = IF calls[id].leadId \in LeadIds
                                  THEN leads[calls[id].leadId] ELSE InitialLead,
                      !.sentiment = calls[id].sentiment])
  /\ UNCHANGED <<activeConversations, convs, calls, leads, campaign, probe, fx>>

\* call.save() returns; with an outcome in the body and a lead, the lead's
\* updateScore is called and its save awaited, else campaign.updateStats().
PutOutcomeSave(f, ok) ==
  /\ At(f, "outcome_save")
  /\ IF ~ok
     THEN /\ handlers' = With(Without(f), Done(f, Http(500), "none"))
          /\ calls' = calls
     ELSE /\ calls' = [calls EXCEPT
               ![f.id].outcome = IF f.outcome # "" THEN f.outcome ELSE @,
               ![f.id].notes = IF f.notes # "" THEN f.notes ELSE @]
          /\ IF f.outcome # "" /\ f.leadFound
             THEN handlers' = With(Without(f),
                    [f EXCEPT !.pc = "outcome_score",
                              !.leadDoc = updateScore(@, f.outcome, f.sentiment)])
             ELSE handlers' = With(Without(f), [f EXCEPT !.pc = "outcome_stats"])
  /\ UNCHANGED <<activeConversations, convs, leads, campaign, probe, fx>>

\* The save of updateScore returns; campaign.updateStats() is awaited.
PutOutcomeScore(f, ok) ==
  /\ At(f, "outcome_score")
  /\ IF ~ok
     THEN /\ handlers' = With(Without(f), Done(f, Http(500), "none"))
          /\ leads' = leads
     ELSE /\ leads' = [leads EXCEPT ![f.leadId] = scoreWrite(@, f.leadDoc, f.outcome)]
          /\ handlers' = With(Without(f), [f EXCEPT !.pc = "outcome_stats"])
  /\ UNCHANGED <<activeConversations, convs, calls, campaign, probe, fx>>

\* campaign.updateStats() returns and the answer is sent.
PutOutcomeStats(f, ok) ==
  /\ At(f, "outcome_stats")
  /\ handlers' = With(Without(f), Done(f, Http(IF ok THEN 200 ELSE 500), "none"))
  /\ UNCHANGED <<activeConversations, convs, calls, leads, campaign, probe, fx>>

ManualNext ==
  \/ \E id \in 0..1, o \in BodyOutcomes, n \in BodyNotes, ok \in BOOLEAN :
        PutOutcomeFind(id, o, n, ok)
  \/ \E f \in Running, ok \in BOOLEAN : PutOutcomeSave(f, ok)
  \/ \E f \in Running, ok \in BOOLEAN : PutOutcomeScore(f, ok)
  \/ \E f \in Running, ok \in BOOLEAN : PutOutcomeStats(f, ok)

SpecManual == ManualInit /\ [][ManualNext]_vars

\* ---------------------------------- ConversationService.replacePlaceholders
\* Script lines of a campaign.
Templates ==
  { <<"H","i"," ","{","f","i","r","s","t","N","a","m","e","}",","," ","i","s"," ","t","h","i","s"," ","{","f","u","l","l","N","a","m","e","}","?">>,
    <<"{","j","o","b","T","i","t","l","e","}"," ","a","t"," ","{","c","o","m","p","a","n","y","}">>,
    <<"{","l","a","s","t","N","a","m","e","}",","," ","{","l","a","s","t","N","a","m","e","}","!">>,
    <<"H","i"," ","f","r","o","m"," ","{","c","i","t","y","}","!">>,
    <<"H","e","l","l","o","!">> }

\* Values of the text fields of a lead; firstName is required, the other
\* fields may be absent (the empty text).
FirstNames == { <<"A","n","a">>, <<"B","o">> }
LastNames == { <<>>, <<"L","e","e">> }
Companies == { <<>>, <<"A","c","m","e">>, <<"B","i","g","$","$">>, <<"R","$","&","D">> }
JobTitles == { <<>>, <<"C","T","O">> }

TemplateInit ==
  /\ Idle
  /\ campaign = NoScript
  /\ \E t \in Templates, fn \in FirstNames, ln \in LastNames,
        co \in Companies, jt \in JobTitles :
        probe = [fn |-> "replacePlaceholders", text |-> t,
                 lead |-> [InitialLead EXCEPT !.firstName = fn, !.lastName = ln,
                                              !.company = co, !.jobTitle = jt],
                 rendered |-> FALSE, out |-> <<>>]

Render ==
  /\ ~probe.rendered
  /\ probe' = [probe EXCEPT !.rendered = TRUE,
                            !.out = replacePlaceholders(probe.text, probe.lead)]
  /\ UNCHANGED <<activeConversations, convs, calls, leads, campaign, handlers, fx>>

TemplateNext == Render

SpecTemplate == TemplateInit /\ [][TemplateNext]_vars

\* ------------------------------------------ ConversationService.shouldEndCall
\* Things a customer says: the phrases of the vocabulary and words close to
\* them, in lower case, in upper case and capitalised, alone and inside a
\* sentence.
UpperChar(ch) ==
  LET caps == {c \in {"A","B","C","D","E","F","G","H","I","J","K","L","M",
                      "N","O","P","Q","R","S","T","U","V","W","X","Y","Z"} :
                 LowerChar(c) = ch}
  IN  IF caps = {} THEN ch ELSE CHOOSE c \in caps : TRUE

upperCased(s) == [i \in 1..Len(s) |-> UpperChar(s[i])]

capitalised(s) == [i \in 1..Len(s) |-> IF i = 1 THEN UpperChar(s[i]) ELSE s[i]]

NearPhrases ==
  { <<>>, <<"g","o","o","d","b","y">>, <<"i","n","t","e","r","e","s","t","e","d">>, <<"n","o","t"," "," ","i","n","t","e","r","e","s","t","e","d">>, <<"h","a","n","g","u","p">>, <<"r","e","m","o","v","e">>, <<"s","t","o","p">> }

SpeechCores ==
  LET lower == {terminationPhrases[i] : i \in 1..Len(terminationPhrases)} \cup NearPhrases
  IN  lower \cup {upperCased(p) : p \in lower} \cup {capitalised(p) : p \in lower}

SpeechPrefixes == { <<>>, <<"p","l","e","a","s","e"," ">>, <<"I","'","m"," ">> }
SpeechSuffixes == { <<>>, <<" ","f","r","o","m"," ","y","o","u","r"," ","l","i","s","t">>, <<","," ","t","e","l","l"," ","m","e"," ","m","o","r","e">> }

CustomerSpeeches ==
  {pre \o core \o post : pre \in SpeechPrefixes, core \in SpeechCores, post \in SpeechSuffixes}

EndCallInit ==
  /\ Idle
  /\ campaign = NoScript
  /\ \E u \in CustomerSpeeches :
        probe = [fn |-> "shouldEndCall", customerSpeech |-> u, checked |-> FALSE, out |-> FALSE]

CheckEndCall ==
  /\ ~probe.checked
  /\ probe' = [probe EXCEPT !.checked = TRUE, !.out = shouldEndCall(probe.customerSpeech)]
  /\ UNCHANGED <<activeConversations, convs, calls, leads, campaign, handlers, fx>>

EndCallNext == CheckEndCall

SpecEndCall == EndCallInit /\ [][EndCallNext]_vars

\* --------------------------------- ConversationService.updateConversationStep
\* The values of currentStep: the one initializeConversation sets and the
\* phases of stepKeywords.
Steps == {"opening"} \cup {stepKeywords[i].step : i \in 1..Len(stepKeywords)}

\* Agent utterances: without a keyword, with keywords of one phase and with
\* keywords of several phases in either order.
AgentResponses ==
  { <<>>,
    <<"G","r","e","a","t",".">>,
    <<"W","h","a","t"," ","i","s"," ","y","o","u","r"," ","b","u","d","g","e","t","?">>,
    <<"p","u","r","c","h","a","s","e"," ","w","i","t","h","i","n"," ","b","u","d","g","e","t">>,
    <<"b","u","d","g","e","t"," ","f","o","r"," ","t","h","e"," ","p","u","r","c","h","a","s","e">>,
    <<"H","o","w","e","v","e","r",","," ","o","u","r"," ","p","r","o","d","u","c","t"," ","h","e","l","p","s">>,
    <<"O","u","r"," ","P","R","O","D","U","C","T",","," ","h","o","w","e","v","e","r",","," ","h","e","l","p","s">>,
    <<"A"," ","c","o","n","c","e","r","n"," ","a","b","o","u","t"," ","t","h","e"," ","s","e","r","v","i","c","e">>,
    <<"S","i","g","n"," ","u","p"," ","f","o","r"," ","t","h","e"," ","n","e","x","t"," ","s","t","e","p">>,
    <<"S","C","H","E","D","U","L","E"," ","A"," ","D","E","C","I","S","I","O","N">>,
    <<"A","n"," ","a","t","t","r","i","b","u","t","e">>,
    <<"S","h","a","l","l"," ","w","e"," ","s","c","h","e","d","u","l","e","?">>,
    <<"T","h","e"," ","b","e","n","e","f","i","t",":"," ","s","i","g","n"," ","u","p">>,
    <<"T","i","m","e","l","i","n","e"," ","a","n","d"," ","o","b","j","e","c","t","i","o","n">> }

StepInit ==
  /\ Idle
  /\ campaign = NoScript
  /\ \E st \in Steps, r \in AgentResponses :
        probe = [fn |-> "updateConversationStep", currentStep |-> st, response |-> r,
                 updated |-> FALSE, out |-> st]

UpdateStep ==
  /\ ~probe.updated
  /\ probe' = [probe EXCEPT !.updated = TRUE,
                            !.out = updateConversationStep(probe.currentStep, probe.response)]
  /\ UNCHANGED <<activeConversations, convs, calls, leads, campaign, handlers, fx>>

StepNext == UpdateStep

SpecStep == StepInit /\ [][StepNext]_vars

\* ------------------------------------------ openaiService.getFallbackResponse
\* Two executions that reach the generator failure with the same transcript
\* and the same call context.
Executions == {1, 2}

\* The transcripts the executions start from have up to MaxFallbackTurns
\* turns.
MaxFallbackTurns == 2

FallbackTranscripts ==
  UNION {{transcript(sp) : sp \in [1..n -> Speakers]} : n \in 1..MaxFallbackTurns}

\* callContext.callNumber of the conversation.
CallNumbers == {1, 2}

FallbackInit ==
  /\ Idle
  /\ campaign = NoScript
  /\ \E h \in FallbackTranscripts, n \in CallNumbers :
        probe = [fn |-> "getFallbackResponse", conversationHistory |-> h,
                 context |-> [callNumber |-> n, currentStep |-> "opening"],
                 appended |-> [e \in Executions |-> <<>>]]

\* The generator has failed in execution e: the fallback is appended.
Fallback(e, randomIndex) ==
  /\ probe.appended[e] = <<>>
  /\ probe' = [probe EXCEPT !.appended[e] =
        <<[speaker |-> "agent",
           message |-> getFallbackResponse(probe.conversationHistory, probe.context,
                                           randomIndex)]>>]
  /\ UNCHANGED <<activeConversations, convs, calls, leads, campaign, handlers, fx>>

FallbackNext == \E e \in Executions, i \in 1..Len(fallbackResponses) : Fallback(e, i)

SpecFallback == FallbackInit /\ [][FallbackNext]_vars

\* The number of customer turns of a transcript.
customerTurns(h) == Cardinality({i \in DOMAIN h : h[i].speaker = "customer"})

signalsPresent(info) == info.nextSteps # <<>> \/ info.interests # <<>>

\* C12: with the end reason customer-requested determineCallOutcome returns
\* not-interested, whatever the transcript and the signals are.
C12_CustomerRequestedNotInterested ==
  (probe.out # "" /\ probe.reason = "customer-requested")
    => probe.out = "not-interested"

\* C12 happens: the outcome of a customer-requested end has been determined
\* for the empty transcript with signals present.
C12_Witness ==
  /\ probe.out # "" /\ probe.reason = "customer-requested"
  /\ probe.conversationHistory = <<>>
  /\ probe.extractedInfo.nextSteps # <<>> /\ probe.extractedInfo.interests # <<>>

\* C13: with another end reason and nextSteps or interests present
\* determineCallOutcome returns interested, whatever the number of customer
\* turns is.
C13_SignalsGiveInterested ==
  (probe.out # "" /\ probe.reason # "customer-requested"
     /\ signalsPresent(probe.extractedInfo))
    => probe.out = "interested"

\* C13 happens: the outcome has been determined for a transcript without
\* customer turns whose only signal is nextSteps.
C13_Witness ==
  /\ probe.out # "" /\ probe.reason = "completed"
  /\ customerTurns(probe.conversationHistory) = 0
  /\ probe.extractedInfo.nextSteps # <<>> /\ probe.extractedInfo.interests = <<>>

\* C14: with another end reason and neither signal present the outcome is
\* decided by the number n of customer turns alone: no-answer for n < 2,
\* interested for n > 5, not-interested otherwise.
C14_TurnCountDecides ==
  (probe.out # "" /\ probe.reason # "customer-requested"
     /\ ~signalsPresent(probe.extractedInfo))
    => LET n == customerTurns(probe.conversationHistory)
       IN  probe.out = (IF n < 2 THEN "no-answer"
                        ELSE IF n > 5 THEN "interested" ELSE "not-interested")

\* C14 happens: a transcript with six customer turns and an agent turn, no
\* signals, has got the outcome interested.
C14_Witness ==
  /\ probe.out = "interested" /\ probe.reason # "customer-requested"
  /\ ~signalsPresent(probe.extractedInfo)
  /\ customerTurns(probe.conversationHistory) = 6
  /\ Len(probe.conversationHistory) = 7

\* C15: updateScore sets the score to min(100, max(0, score + d + s)), d
\* being +30 for sale, +20 for interested, +10 for callback, -15 for
\* not-interested, -30 for wrong-number and -5 for another outcome, and s
\* being +5 for positive, -5 for negative and 0 for neutral or no sentiment;
\* the score stays in 0..100, and wrong-number on 50 without sentiment
\* gives 20.
C15_ScoreTable ==
  probe.lead.totalCalls > 0 =>
    LET o == probe.callOutcome
        d == IF o = "sale" THEN 30
             ELSE IF o = "interested" THEN 20
             ELSE IF o = "callback" THEN 10
             ELSE IF o = "not-interested" THEN -15
             ELSE IF o = "wrong-number" THEN -30
             ELSE -5
        s == IF probe.sentiment = "positive" THEN 5
             ELSE IF probe.sentiment = "negative" THEN -5 ELSE 0
        sum == probe.before + d + s
        atLeast0 == IF sum < 0 THEN 0 ELSE sum
    IN  /\ probe.lead.score = (IF atLeast0 > 100 THEN 100 ELSE atLeast0)
        /\ probe.lead.score \in 0..100
        /\ (probe.before = 50 /\ o = "wrong-number" /\ probe.sentiment = "")
             => probe.lead.score = 20

\* C15 happens: wrong-number has been applied to the score 50 without a
\* sentiment, as the second update of the lead.
C15_Witness ==
  /\ probe.lead.totalCalls = 2
  /\ probe.before = 50 /\ probe.callOutcome = "wrong-number" /\ probe.sentiment = ""
  /\ probe.lead.score = 20

\* C16: once updateScore has applied wrong-number to a lead, the lead stays
\* non-callable whatever updateScore and scheduleNextCall do to it later:
\* isCallable is false for the stored lead and for every document loaded
\* from then on, and POST /initiate rejects the call.
C16_WrongNumberPermanent ==
  probe.wrong =>
    /\ ~isCallable(probe.stored)
    /\ \A i \in DOMAIN probe.docs :
          probe.docs[i].afterWrong
            => (~isCallable(probe.docs[i].doc) /\ probe.docs[i].verdict # "accepted")

\* C16 happens: after wrong-number another update has given the lead the
\* status interested, and a call to the lead, loaded afterwards, has been
\* rejected.
C16_Witness ==
  /\ probe.wrong
  /\ probe.stored.status = "interested"
  /\ \E i \in DOMAIN probe.docs :
        probe.docs[i].afterWrong /\ probe.docs[i].verdict = "rejected"
                                /\ probe.docs[i].doc.status = "interested"

\* C17: when updateLeadFromConversation has completed for a call whose
\* outcome is interested, the lead's nextCallDate is 72 hours after the
\* update.
C17_InterestedSchedules ==
  [][\A f \in Frames :
       (/\ f.pc = "end_lead_sched" /\ f.outcome = "interested" /\ Resumes(f)
        /\ \E g \in NewFrames : g.pc = "end_stats" /\ g.conv = f.conv /\ ~g.leadFailed)
         => leads'[convs[f.conv].leadId].nextCallDate = [kind |-> "retry", hours |-> 72]]_vars

\* C18: a failure of updateScore's or scheduleNextCall's save inside
\* updateLeadFromConversation neither blocks nor undoes the finalized call:
\* the call record of the CallId keeps the outcome, endConversation goes on,
\* deletes the CallId from activeConversations and returns its summary, and
\* throws nothing (unless campaign.updateStats fails afterwards).
C18_LeadFailureDoesNotBlock ==
  [][\A f \in Frames :
       (Resumes(f) /\ f.pc \in {"end_lead_score", "end_lead_sched", "end_stats"})
         => \A g \in NewFrames :
              (g.leadFailed /\ g.err # "io")
                => /\ \E i \in outcomeRecords(f.callSid) :
                        /\ i \in 1..Len(calls')
                        /\ calls'[i].callSid = f.callSid
                        /\ calls'[i].outcome = f.outcome
                        /\ calls'[i].notes = "summary"
                   /\ \/ g.pc = "end_stats" /\ activeConversations' = activeConversations
                      \/ /\ f.pc = "end_stats" /\ g.pc = "done" /\ g.ret = "summary"
                         /\ activeConversations'[f.callSid] = 0]_vars

\* C18 happens: an endConversation call whose lead update failed has
\* returned its summary; the record is there and the CallId is not in
\* activeConversations.
C18_Witness ==
  \E f \in Frames :
     /\ f.pc = "done" /\ f.leadFailed /\ f.ret = "summary"
     /\ outcomeRecords(f.callSid) # {}
     /\ activeConversations[f.callSid] = 0

\* C19: when analyzeSentiment or extractInformation has failed during an
\* endConversation call, the call still completes: with the outcome
\* determined, the call record is persisted, the state is removed and the
\* summary is returned.  Stated for the calls during which no request to
\* the database failed for a reason of its own.
C19_AnalysisFailureStillFinalizes ==
  \A f \in Frames :
     (f.pc = "done" /\ f.extractFailed /\ f.err # "io")
       => /\ f.ret = "summary"
          /\ fx[f.conv].resolved >= 1
          /\ fx[f.conv].persisted >= 1
          /\ fx[f.conv].removed >= 1

\* The value a placeholder stands for: the lead's field, fullName being
\* firstName and lastName joined by a space and trimmed.
placeholderValue(ph, lead) ==
  CASE ph = PH_firstName -> lead.firstName
    [] ph = PH_lastName -> lead.lastName
    [] ph = PH_company -> lead.company
    [] ph = PH_jobTitle -> lead.jobTitle
    [] ph = PH_fullName ->
         (IF lead.lastName = <<>> THEN lead.firstName
          ELSE lead.firstName \o <<" ">> \o lead.lastName)

\* The template with each placeholder replaced by its value.
RECURSIVE filledIn(_, _)
filledIn(text, lead) ==
  IF text = <<>> THEN <<>>
  ELSE LET phs == {ph \in {PH_firstName, PH_lastName, PH_fullName, PH_company, PH_jobTitle} :
                     Len(ph) <= Len(text) /\ SubSeq(text, 1, Len(ph)) = ph}
       IN  IF phs = {} THEN <<Head(text)>> \o filledIn(Tail(text), lead)
           ELSE LET ph == CHOOSE p \in phs : TRUE
                IN  placeholderValue(ph, lead)
                      \o filledIn(SubSeq(text, Len(ph) + 1, Len(text)), lead)

\* C20: replacePlaceholders returns the template with every occurrence of
\* {firstName}, {lastName}, {fullName}, {company} and {jobTitle} replaced by
\* the lead's value of the field (the empty text when there is none).
C20_PlaceholdersReplaced ==
  probe.rendered => probe.out = filledIn(probe.text, probe.lead)

\* A text contains a literal placeholder: a name in braces.
hasPlaceholder(s) ==
  \E i \in 1..Len(s), j \in 1..Len(s) :
     /\ i + 1 < j /\ s[i] = "{" /\ s[j] = "}"
     /\ \A k \in (i + 1)..(j - 1) : s[k] \notin {"{", "}", " "}

\* C21: the opening utterance made from a template contains no literal
\* placeholder: a placeholder with another name than the five of the lead,
\* such as {city}, is replaced by the empty text.
C21_NoLiteralPlaceholder ==
  probe.rendered => ~hasPlaceholder(probe.out)

\* The text sub occurs in the text s.
occursIn(sub, s) ==
  sub = <<>> \/ \E i \in 1..Len(s), j \in 1..Len(s) : SubSeq(s, i, j) = sub

\* C22: shouldEndCall is true exactly when the utterance in lower case
\* contains a phrase of the termination vocabulary, whatever the letter
\* case of the utterance is; it is true for 'please remove me from your
\* list' and false for 'I'm interested, tell me more'.
C22_EndCallVocabulary ==
  probe.checked =>
    /\ probe.out = (\E i \in 1..Len(terminationPhrases) :
                      occursIn(terminationPhrases[i], toLowerCase(probe.customerSpeech)))
    /\ probe.customerSpeech = <<"p","l","e","a","s","e"," ","r","e","m","o","v","e"," ","m","e"," ","f","r","o","m"," ","y","o","u","r"," ","l","i","s","t">> => probe.out
    /\ probe.customerSpeech = <<"I","'","m"," ","i","n","t","e","r","e","s","t","e","d",","," ","t","e","l","l"," ","m","e"," ","m","o","r","e">> => ~probe.out

\* C22 happens: shouldEndCall has answered for an utterance in upper case
\* that contains a phrase of the vocabulary inside a sentence.
C22_Witness ==
  /\ probe.checked /\ probe.out
  /\ probe.customerSpeech = <<"p","l","e","a","s","e"," ","G","O","O","D","B","Y","E"," ","f","r","o","m"," ","y","o","u","r"," ","l","i","s","t">>

\* The text or list p is the beginning of q.
isPrefix(p, q) == Len(p) <= Len(q) /\ SubSeq(q, 1, Len(p)) = p

\* C23: while a CallId stays in activeConversations its transcript only
\* grows at the end: the transcript before a step is a prefix of the
\* transcript after it.
C23_TranscriptAppendOnly ==
  [][\A c \in CallSids :
       (activeConversations[c] # 0 /\ activeConversations'[c] # 0)
         => isPrefix(convs[activeConversations[c]].conversationHistory,
                     convs'[activeConversations'[c]].conversationHistory)]_vars

\* The step runs a handler of a request for the CallSid c.
StepFor(c) ==
  \/ \E g \in NewFrames : g.callSid = c
  \/ \E f \in Frames : Resumes(f) /\ f.callSid = c

\* C24: calls are independent.  While handlers of one CallSid are
\* suspended, the handlers of another CallSid take their steps, and such a
\* step leaves the state of every other CallSid as it is: its presence in
\* activeConversations, its transcript and its currentStep.
C24_CallsIndependent ==
  [][\A a \in PairSids :
       ~StepFor(a)
         => /\ activeConversations'[a] = activeConversations[a]
            /\ activeConversations[a] # 0
                 => convs'[activeConversations[a]] = convs[activeConversations[a]]]_vars

\* C24 happens: the voice webhook of one CallSid is still suspended on the
\* save of its call record, its state being in activeConversations, and
\* the speech of a call initialized later, with another CallSid, has been
\* answered meanwhile.
C24_Witness ==
  \E fa \in Running, fb \in Frames :
     /\ fa.kind = "voice" /\ fa.pc = "voice_save"
     /\ activeConversations[fa.callSid] = fa.conv /\ fa.conv # 0
     /\ fb.kind = "gather" /\ fb.pc = "done" /\ fb.callSid # fa.callSid
     /\ fb.conv > fa.conv
     /\ Len(convs[fb.conv].conversationHistory) >= 3

\* A keyword of the phase ph occurs in the text in lower case.
phaseIn(ph, text) ==
  \E i \in 1..Len(stepKeywords) :
     /\ stepKeywords[i].step = ph
     /\ \E k \in stepKeywords[i].keywords : occursIn(k, toLowerCase(text))

\* C25: updateConversationStep sets currentStep to the first of the phases
\* qualification, presentation, objection, closing that has a keyword in
\* the agent utterance in lower case, wherever the keywords stand in the
\* utterance and whatever the phase was before.
C25_FirstPhaseWins ==
  probe.updated =>
    LET r == probe.response IN
    /\ phaseIn("qualification", r) => probe.out = "qualification"
    /\ (~phaseIn("qualification", r) /\ phaseIn("presentation", r))
         => probe.out = "presentation"
    /\ (~phaseIn("qualification", r) /\ ~phaseIn("presentation", r) /\ phaseIn("objection", r))
         => probe.out = "objection"
    /\ (~phaseIn("qualification", r) /\ ~phaseIn("presentation", r) /\ ~phaseIn("objection", r)
          /\ phaseIn("closing", r))
         => probe.out = "closing"

\* C25 happens: an utterance in which a closing keyword stands before a
\* qualification keyword has moved a call from objection to qualification.
C25_Witness ==
  /\ probe.updated /\ probe.currentStep = "objection"
  /\ probe.response = <<"p","u","r","c","h","a","s","e"," ","w","i","t","h","i","n"," ","b","u","d","g","e","t">>
  /\ probe.out = "qualification"

\* C26: when the end reason is not customer-requested and nextSteps
\* mentions a callback, determineCallOutcome returns interested, and it
\* returns callback for no input at all.
C26_CallbackNeverReturned ==
  probe.out # "" =>
    /\ probe.out # "callback"
    /\ (probe.reason # "customer-requested"
          /\ occursIn(S_callback, probe.extractedInfo.nextSteps))
         => probe.out = "interested"

\* C26 happens: the outcome has been determined for a call that ended with
\* a failed status, whose nextSteps asks for a callback on a day and whose
\* other signal is absent.
C26_Witness ==
  /\ probe.out = "interested" /\ probe.reason = "failed"
  /\ probe.extractedInfo.nextSteps # S_callback
  /\ occursIn(S_callback, probe.extractedInfo.nextSteps)
  /\ probe.extractedInfo.interests = <<>>

\* C27: an agent utterance without a keyword of any phase leaves
\* currentStep as it is; currentStep is always one of opening,
\* qualification, presentation, objection and closing; and once the
\* currentStep of a call has left opening it is never opening again for
\* that call.
C27_StepNeverBackToOpening ==
  [][/\ \A o \in 1..Len(convs) :
          /\ convs'[o].currentStep \in
               {"opening", "qualification", "presentation", "objection", "closing"}
          /\ \A r \in GeneratedResponses \cup Range(fallbackResponses) :
               (/\ convs'[o].conversationHistory =
                     Append(convs[o].conversationHistory, [speaker |-> "agent", message |-> r])
                /\ \A ph \in {"qualification", "presentation", "objection", "closing"} :
                     ~phaseIn(ph, r))
                 => convs'[o].currentStep = convs[o].currentStep
     /\ \A c \in CallSids :
          (/\ activeConversations[c] # 0 /\ activeConversations'[c] # 0
           /\ convs[activeConversations[c]].currentStep # "opening")
            => convs'[activeConversations'[c]].currentStep # "opening"]_vars

\* C28: when the voice webhook of a call with an existing lead and campaign
\* has finished, the transcript of the call's state begins with the opening
\* utterance as an agent turn, and that utterance is what is spoken.  Stated
\* for the webhooks during which no speech arrives and whose requests to
\* the database do not fail for a reason of their own (a save that fails
\* although no record of the CallSid exists).
C28_OpeningTurnFirst ==
  [][\A f \in Frames :
       (/\ Resumes(f) /\ f.kind = "voice" /\ f.pc = "voice_save"
        /\ convs[f.conv].conversationHistory = <<>>)
         => \A g \in NewFrames :
              \/ ~callExists(f.callSid) /\ g.resp = HangupTwiML(VoiceErrorGoodbye)
              \/ LET h == convs'[f.conv].conversationHistory
                     opening == openingMessage(convs[f.conv].lead)
                 IN  /\ Len(h) >= 1
                     /\ h[1] = [speaker |-> "agent", message |-> opening]
                     /\ g.resp = Gather(opening)]_vars

\* C29: a failure of a step of endConversation (the save of the call
\* record, the summary, campaign.updateStats) does not stop it: every
\* endConversation call that found a state runs to its end, performs its
\* remaining steps and removes the state from activeConversations.
C29_FinalizeRunsToEnd ==
  \A f \in Frames :
     (f.pc = "done" /\ f.ret \in {"summary", "throw"})
       => /\ f.ret = "summary"
          /\ fx[f.conv].leadDone >= 1
          /\ fx[f.conv].removed >= 1

\* C30: two executions with the same transcript and the same call
\* context that both hit a generator failure append the same fallback
\* utterance.
C30_SameFallback ==
  (\A e \in Executions : probe.appended[e] # <<>>)
    => probe.appended[1] = probe.appended[2]

\* What is kept of a finalized call: the values of the fields of its call
\* record (callData of endConversation) and of the summary returned to the
\* caller, which repeats the outcome and the sentiment of the record.
keptValues(c) ==
  UNION {{calls[i].status, calls[i].outcome, calls[i].sentiment, calls[i].notes} :
           i \in outcomeRecords(c)}

\* C31: after endConversation(callSid, reason) has completed, the reason is
\* part of what is persisted or returned for the call: some field of the
\* call record or of the returned summary holds it.
C31_EndReasonRetained ==
  \A f \in Frames :
     (f.pc = "done" /\ f.ret = "summary") => f.reason \in keptValues(f.callSid)

\* C32: for a finished call whose outcome is neither callback nor
\* interested, updateLeadFromConversation leaves the lead's nextCallDate as
\* it was.
C32_OtherOutcomesKeepSchedule ==
  (probe.updated /\ probe.outcome \notin {"callback", "interested"})
    => probe.stored.nextCallDate = probe.lead.nextCallDate

\* The lead of a call without an answer has been updated and saved, and it
\* had a status for which scheduleNextCall would have set a date.
C32_Witness ==
  /\ probe.updated
  /\ probe.saved
  /\ probe.outcome = "no-answer"
  /\ probe.lead.status = "new"
  /\ probe.lead.nextCallDate = NoDate
  /\ probe.stored.totalCalls = probe.lead.totalCalls + 1

\* C33: updateScore sets the lead's status to mirror the outcome: sale gives
\* converted, interested gives interested, callback gives callback,
\* not-interested gives not-interested, wrong-number gives do-not-call; for
\* every other outcome (voicemail, no-answer) the status stays as it was.
C33_StatusMirrorsOutcome ==
  [][ /\ probe'.callOutcome = "sale" => probe'.lead.status = "converted"
      /\ probe'.callOutcome = "interested" => probe'.lead.status = "interested"
      /\ probe'.callOutcome = "callback" => probe'.lead.status = "callback"
      /\ probe'.callOutcome = "not-interested" => probe'.lead.status = "not-interested"
      /\ probe'.callOutcome = "wrong-number" => probe'.lead.status = "do-not-call"
      /\ probe'.callOutcome \in {"voicemail", "no-answer"}
           => probe'.lead.status = probe.lead.status ]_vars

\* A voicemail after an interested call: the second update has left the
\* status of the first.
C33_Witness ==
  /\ probe.callOutcome = "voicemail"
  /\ probe.lead.totalCalls = 2
  /\ probe.lead.status = "interested"

\* The outcomes the automated finalize resolves.
FinalizeOutcomes == {"not-interested", "interested", "no-answer"}

\* C34: the outcome resolved by endConversation is always one of
\* not-interested, interested and no-answer, in the handler, in the call
\* record it saves and in its effect on the lead: no finalize marks a lead
\* converted or do-not-call.
C34_FinalizeOutcomes ==
  /\ \A f \in Frames : f.outcome # "" => f.outcome \in FinalizeOutcomes
  /\ \A i \in 1..Len(calls) : calls[i].notes = "summary" => calls[i].outcome \in FinalizeOutcomes
  /\ \A l \in LeadIds : leads[l].status \notin {"converted", "do-not-call"} /\ ~leads[l].doNotCall

\* A finalize has run to its end after the extraction reported a callback
\* request, and the lead has been updated for it.
C34_Witness ==
  \E f \in Frames :
     /\ f.pc = "done" /\ f.ret = "summary"
     /\ \E i \in outcomeRecords(f.callSid) : calls[i].outcome = "interested"
     /\ fx[f.conv].leadUpdated >= 1
     /\ leads[convs[f.conv].leadId].status = "interested"

\* The finalized calls of lead l.
finalizedCalls(l) ==
  {i \in 1..Len(calls) : calls[i].leadId = l /\ calls[i].status = "completed"}

\* C35: a lead's totalCalls is the number of its finalized calls; a manual
\* update of the outcome of a finalized call does not change it.
C35_TotalCallsCountsFinalized ==
  \A l \in LeadIds : leads[l].totalCalls = Cardinality(finalizedCalls(l))

\* C36: when a terminal provider status arrives for a CallId without an
\* entry in activeConversations and the route reaches endConversation, that
\* call returns null and the route answers 200; no outcome is resolved, no
\* call record is created, and no lead, conversation or entry changes (the
\* route's own update writes the status of an existing record only).
C36_StatusWithoutStateIsNoOp ==
  [][\A g \in NewFrames :
       (Arrival /\ g.kind = "status" /\ g.reason \in TerminalStatuses
          /\ activeConversations[g.callSid] = 0
          /\ ~(g.pc = "done" /\ g.ret = "none"))
       => /\ g.pc = "done" /\ g.ret = "null" /\ g.resp = Http(200)
          /\ sansStatus(calls') = sansStatus(calls)
          /\ UNCHANGED <<activeConversations, convs, leads, fx>>]_vars

\* The provider has reported busy for a call that was initiated and never
\* connected: there is its queued record, now busy, and no conversation.
C36_Witness ==
  \E g \in Frames :
     /\ g.kind = "status" /\ g.pc = "done" /\ g.ret = "null" /\ g.reason = "busy"
     /\ convs = <<>>
     /\ \E i \in recordsOf(calls, g.callSid) : calls[i].status = "busy"
     /\ \A l \in LeadIds : leads[l] = InitialLead

\* The turns of the transcript are the agent's and the customer's in turn,
\* the first one the agent's.
alternates(history) ==
  \A i \in 1..Len(history) :
     history[i].speaker = (IF i % 2 = 1 THEN "agent" ELSE "customer")

\* C37: when the events of a call are processed one at a time, the call's
\* transcript alternates between the speakers and starts with the agent's
\* opening, in every state, also after a handler has failed.
C37_TurnsAlternate ==
  \A o \in 1..Len(convs) : alternates(convs[o].conversationHistory)

\* C38: once endConversation has persisted a call's record as completed
\* with its outcome, no later step of a handleCustomerSpeech for the CallId
\* sets the record's status back to in-progress or changes its transcript.
C38_CompletedRecordKept ==
  [][\A f \in Frames :
       (f.kind = "gather" /\ Resumes(f))
       => \A i \in outcomeRecords(f.callSid) :
            calls[i].status = "completed"
            => /\ calls'[i].status # "in-progress"
               /\ calls'[i].conversation = calls[i].conversation]_vars

\* C39: the transcript that endConversation persists for a call ended at
\* the customer's request ends with the customer turn that asked for it: the
\* turn was appended before the check and no agent turn after it.
C39_EndsWithTerminatingTurn ==
  [][\A f \in Frames :
       (f.pc = "end_save" /\ f.reason = "customer-requested" /\ Resumes(f)
          /\ Len(calls') > Len(calls))
       => LET t == calls'[Len(calls')].conversation
          IN  /\ t # <<>>
              /\ t[Len(t)] = [speaker |-> "customer", message |-> f.speech]]_vars

====
